---- MODULE Spec2Model ----
(***************************************************************************)
(* Pyle: the bytecode compiler (pyle_compiler.py) and the stack virtual    *)
(* machine (pyle_vm.py).  A program is an AST as built by pyle_parser.py;  *)
(* Compiler.compile turns it into a chunk (instructions, constants) and    *)
(* PyleVM.interpret runs the chunk one instruction per step.               *)
(*                                                                         *)
(* Instruction indices (ip, jump targets, start_ip) are 0-based as in the  *)
(* source; the instruction at index i is bytecode_chunk[i + 1] here.       *)
(* Python's None operand is NoOperand, a None start_ip is NoIp.            *)
(* Floats are exact rationals n/d (d > 0, lowest terms): rounding is not   *)
(* modelled.  Lists and iterators are Python objects with identity, so     *)
(* they live in a heap and values hold references to them.                 *)
(***************************************************************************)
EXTENDS Integers, Sequences, FiniteSets, TLC

NoOperand == -1
NoIp == -1

(***************************************************************************)
(* Runtime values (spec section 3, pyle_bytecode.py).                      *)
(***************************************************************************)
NoneV == [t |-> "None"]
IntV(i) == [t |-> "Int", i |-> i]
BoolV(b) == [t |-> "Bool", b |-> b]
StrV(s) == [t |-> "Str", s |-> s]
ListV(ref) == [t |-> "List", ref |-> ref]
IterV(ref) == [t |-> "Iter", ref |-> ref]
NameListV(names) == [t |-> "NameList", names |-> names]
\* a dict: keys in insertion order, d the mapping
KwArgsV(keys, d) == [t |-> "KwArgs", keys |-> keys, d |-> d]
MethodV(self, attr) == [t |-> "Method", self |-> self, attr |-> attr]

Abs(x) == IF x < 0 THEN -x ELSE x

RECURSIVE Gcd(_, _)
Gcd(a, b) == IF b = 0 THEN a ELSE Gcd(b, a % b)

\* float(n/d), d # 0, in lowest terms with a positive denominator
FloatV(n, d) ==
    LET g == Gcd(Abs(n), Abs(d))
        s == IF d < 0 THEN -1 ELSE 1
    IN  [t |-> "Float", n |-> s * (n \div g), d |-> s * (d \div g)]

Range(start, end, step) == [t |-> "Range", start |-> start, end |-> end, step |-> step]

PyleFunction(name, arity, start_ip, native_fn) ==
    [t |-> "Fn", name |-> name, arity |-> arity, start_ip |-> start_ip, native_fn |-> native_fn]

Variable(var_name, value, is_const) ==
    [var_name |-> var_name, value |-> value, is_const |-> is_const]

Instruction(opcode, operand) == [opcode |-> opcode, operand |-> operand, operand_kw |-> NoOperand]

\* a CallFrame whose stack_slot is the index above the callee
CallFrame_above_callee(return_ip, stack_slot, env_depth) ==
    [return_ip |-> return_ip, stack_slot |-> stack_slot + 1, env_depth |-> env_depth]

CallFrame(return_ip, stack_slot, env_depth) ==
    [return_ip |-> return_ip, stack_slot |-> stack_slot, env_depth |-> env_depth]

\* the native registry, in the insertion order of the BUILTINS dict
BUILTINS ==
    << PyleFunction("echo", -1, NoIp, "native_echo"),
       PyleFunction("len", 1, NoIp, "native_len"),
       PyleFunction("scan", -1, NoIp, "native_scan"),
       PyleFunction("perf_counter", 0, NoIp, "native_perf_counter"),
       PyleFunction("importpy", 1, NoIp, "native_import_py"),
       PyleFunction("get_attr", 2, NoIp, "native_get_attr") >>

BuiltinNames == {BUILTINS[i].name : i \in 1..Len(BUILTINS)}

OPERATION_INTS ==
    [k \in {"PLUS", "MINUS", "MUL", "DIV", "MOD", "and", "or",
            "EQ", "NEQ", "GT", "GTE", "LT", "LTE"} |->
        CASE k = "PLUS" -> "OP_ADD"
          [] k = "MINUS" -> "OP_SUBTRACT"
          [] k = "MUL" -> "OP_MULTIPLY"
          [] k = "DIV" -> "OP_DIVIDE"
          [] k = "MOD" -> "OP_MODULO"
          [] k = "and" -> "OP_AND"
          [] k = "or" -> "OP_OR"
          [] k = "EQ" -> "OP_EQUAL"
          [] k = "NEQ" -> "OP_NOT_EQUAL"
          [] k = "GT" -> "OP_GREATER"
          [] k = "GTE" -> "OP_GREATER_EQUAL"
          [] k = "LT" -> "OP_LESS"
          [] k = "LTE" -> "OP_LESS_EQUAL"]

(***************************************************************************)
(* AST nodes (pyle_ast.py).  A node is a record whose type field is the    *)
(* class name; NoNode stands for Python's None in an optional child.       *)
(* Block.token is TRUE when the block carries its '{' token.               *)
(***************************************************************************)
NoNode == [type |-> "NoNode"]
Block(statements, token) == [type |-> "Block", statements |-> statements, token |-> token]
Number(value) == [type |-> "Number", value |-> value]
String(s) == [type |-> "String", value |-> StrV(s)]
Boolean(b) == [type |-> "Boolean", value |-> BoolV(b)]
UnaryOp(op, operand) == [type |-> "UnaryOp", op |-> op, operand |-> operand]
BinaryOp(left, op, right) == [type |-> "BinaryOp", left |-> left, op |-> op, right |-> right]
LogicalOp(left, op, right) == [type |-> "LogicalOp", left |-> left, op |-> op, right |-> right]
ComparisonOp(left, op, right) == [type |-> "ComparisonOp", left |-> left, op |-> op, right |-> right]
VarDeclareStmt(name, initializer, is_const) ==
    [type |-> "VarDeclareStmt", name |-> name, initializer |-> initializer, is_const |-> is_const]
AssignStmt(name, value) == [type |-> "AssignStmt", name |-> name, value |-> value]
VariableExpr(name) == [type |-> "VariableExpr", name |-> name]
IfStmt(condition, then_branch, else_branch) ==
    [type |-> "IfStmt", condition |-> condition, then_branch |-> then_branch,
     else_branch |-> else_branch]
WhileStmt(condition, body) == [type |-> "WhileStmt", condition |-> condition, body |-> body]
BreakStmt == [type |-> "BreakStmt"]
ContinueStmt == [type |-> "ContinueStmt"]
RangeSpecifier(start, end, step) ==
    [type |-> "RangeSpecifier", start |-> start, end |-> end, step |-> step]
ForInStmt(loop_variable, iterable, body) ==
    [type |-> "ForInStmt", loop_variable |-> loop_variable, iterable |-> iterable, body |-> body]
ArrayLiteral(elements) == [type |-> "ArrayLiteral", elements |-> elements]
FunctionExpr(params, body) == [type |-> "FunctionExpr", params |-> params, body |-> body]
FunctionDefStmt(name, params, body) ==
    [type |-> "FunctionDefStmt", name |-> name, params |-> params, body |-> body]
KeywordArg(name, value) == [name |-> name, value |-> value]
CallExpr(callee, arguments, keywords) ==
    [type |-> "CallExpr", callee |-> callee, arguments |-> arguments, keywords |-> keywords]
IndexExpr(collection, index) == [type |-> "IndexExpr", collection |-> collection, index |-> index]
AssignIndexStmt(collection, index, value) ==
    [type |-> "AssignIndexStmt", collection |-> collection, index |-> index, value |-> value]
ReturnStmt(value) == [type |-> "ReturnStmt", value |-> value]
DotExpr(object, attr) == [type |-> "DotExpr", object |-> object, attr |-> attr]

\* isinstance(node, Expr): the classes of pyle_ast.py that derive from Expr
ExprTypes ==
    {"VariableExpr", "Number", "String", "UnaryOp", "ArrayLiteral", "Boolean", "BinaryOp",
     "LogicalOp", "ComparisonOp", "FunctionExpr", "CallExpr", "IndexExpr", "DotExpr"}

(***************************************************************************)
(* Python's == on values.  int, float and bool compare numerically across  *)
(* types; lists compare element-wise; dataclasses compare field-wise;      *)
(* iterators compare by identity.  h is the heap the references point to.  *)
(***************************************************************************)
IsNum(v) == v.t \in {"Int", "Float", "Bool"}
IsInt(v) == v.t \in {"Int", "Bool"}
NumN(v) == CASE v.t = "Int" -> v.i
             [] v.t = "Bool" -> (IF v.b THEN 1 ELSE 0)
             [] v.t = "Float" -> v.n
NumD(v) == IF v.t = "Float" THEN v.d ELSE 1

RECURSIVE PyEq(_, _, _)
PyEq(h, a, b) ==
    IF IsNum(a) /\ IsNum(b) THEN NumN(a) * NumD(b) = NumN(b) * NumD(a)
    ELSE IF a.t # b.t THEN FALSE
    ELSE CASE a.t = "List" ->
                \/ a.ref = b.ref
                \/ /\ Len(h[a.ref].items) = Len(h[b.ref].items)
                   /\ \A i \in 1..Len(h[a.ref].items) :
                         PyEq(h, h[a.ref].items[i], h[b.ref].items[i])
           [] a.t = "Range" ->
                /\ PyEq(h, a.start, b.start)
                /\ PyEq(h, a.end, b.end)
                /\ PyEq(h, a.step, b.step)
           [] OTHER -> a = b

(***************************************************************************)
(* The compiler (pyle_compiler.py).  self is the Compiler object; error    *)
(* is "" until a visitor raises, and then holds the first message: the     *)
(* exception leaves compile() and no chunk is returned.                    *)
(***************************************************************************)
Placeholder == 99999

Compiler ==
    [bytecode_chunk |-> <<>>, constants |-> <<>>, scope_depth |-> 0, loop_level |-> 0,
     loop_start_patches |-> <<>>, loop_end_patches |-> <<>>,
     token_map |-> [i \in {} |-> NoneV], error |-> ""]

Raise(self, msg) == IF self.error # "" THEN self ELSE [self EXCEPT !.error = msg]

\* a statement that follows a call which may have raised: skipped once it has
Unless(self, new) == IF self.error # "" THEN self ELSE new

\* the least member of a set of positive positions, 0 if there is none
First(positions) ==
    IF positions = {} THEN 0
    ELSE CHOOSE i \in positions : \A j \in positions : i <= j

\* list.index(value): 0-based index of the first entry equal to value, -1 for ValueError
ConstIndex(constants, value) ==
    First({i \in 1..Len(constants) : PyEq(<<>>, constants[i], value)}) - 1

\* the object after add_constant(value): value is appended unless it is there
add_constant(self, value) ==
    IF self.error # "" \/ ConstIndex(self.constants, value) >= 0
    THEN self
    ELSE [self EXCEPT !.constants = Append(@, value)]

\* A Token, reduced to its text: the name for an identifier, the operator for
\* an operator; the token a node carries as node.token is named after the node
Token(value) == [t |-> "Token", value |-> value]

\* node.token: the parser gives every node one but the root Block
TokenOf(node) ==
    IF node.type = "Block" /\ ~node.token THEN NoneV ELSE Token(node.type)

\* first if first else second
TokenOr(first, second) == IF first # NoneV THEN first ELSE second

\* token_map[instruction_index] = token
MapPut(token_map, instruction_index, token) ==
    [i \in DOMAIN token_map \cup {instruction_index} |->
        IF i = instruction_index THEN token ELSE token_map[i]]

\* the token is recorded under the index of the new instruction: if token
emit_instruction(self, opcode, operand, token) ==
    Unless(self, [self EXCEPT
        !.bytecode_chunk = Append(@, Instruction(opcode, operand)),
        !.token_map = IF token = NoneV THEN @
                      ELSE MapPut(@, Len(self.bytecode_chunk), token)])

\* emit_instruction(opcode, idx, token) where idx is what an earlier
\* add_constant(value) returned: constants only grows, so idx is still
\* constants.index(value)
emit_constant(self, opcode, value, token) ==
    emit_instruction(self, opcode, ConstIndex(self.constants, value), token)

\* emit_instruction(opcode, self.add_constant(value), token)
emit_with_constant(self, opcode, value, token) ==
    IF self.error # "" THEN self
    ELSE emit_constant(add_constant(self, value), opcode, value, token)

\* a patch_jump that leaves the placeholder in the instruction
patch_jump_skipped(self, instruction_index) == self

\* patch_jump(instruction_index) with the default target len(bytecode_chunk)
patch_jump(self, instruction_index) ==
    IF self.error # "" THEN self
    ELSE IF ~(0 <= instruction_index /\ instruction_index < Len(self.bytecode_chunk))
    THEN Raise(self, "patch_jump: instruction_index out of bounds")
    ELSE [self EXCEPT !.bytecode_chunk[instruction_index + 1].operand =
                          Len(self.bytecode_chunk)]

\* for patch_idx in patches: self.bytecode_chunk[patch_idx].operand = target
patch_all(self, patches, target) ==
    Unless(self, [self EXCEPT !.bytecode_chunk =
        [i \in DOMAIN @ |->
            IF \E k \in DOMAIN patches : patches[k] = i - 1
            THEN [@[i] EXCEPT !.operand = target]
            ELSE @[i]]])

Last(s) == s[Len(s)]
Front(s) == SubSeq(s, 1, Len(s) - 1)

\* for patch_idx in self.loop_end_patches[-1]: the break jumps of the innermost loop
patch_breaks(self, target) == patch_all(self, Last(self.loop_end_patches), target)

\* for patch_idx in self.loop_start_patches[-1]: the continue jumps of the innermost loop
patch_continues(self, target) == patch_all(self, Last(self.loop_start_patches), target)

\* loop_start_patches.pop(); loop_end_patches.pop(); loop_level -= 1
pop_loop(self) ==
    Unless(self, [self EXCEPT !.loop_start_patches = Front(@),
                              !.loop_end_patches = Front(@),
                              !.loop_level = @ - 1])

\* self.scope_depth = depth
set_scope_depth(self, depth) == Unless(self, [self EXCEPT !.scope_depth = depth])

\* self.scope_depth += n
add_scope_depth(self, n) == Unless(self, [self EXCEPT !.scope_depth = @ + n])

_initialize_builtins(self) ==
    LET RECURSIVE each(_, _)
        each(s, i) ==
            IF s.error # "" \/ i > Len(BUILTINS) THEN s
            ELSE LET fn == add_constant(s, BUILTINS[i])
                     nm == add_constant(fn, StrV(BUILTINS[i].name))
                     s1 == emit_constant(nm, "OP_CONST", BUILTINS[i], NoneV)
                     s2 == emit_constant(s1, "OP_DEF_GLOBAL", StrV(BUILTINS[i].name), NoneV)
                 IN  each(s2, i + 1)
    IN  each(self, 1)

RECURSIVE _compile_node(_, _)

\* for n in nodes: self._compile_node(n); the loop ends when a visitor has raised
RECURSIVE compile_each(_, _, _)
compile_each(self, nodes, i) ==
    IF self.error # "" \/ i > Len(nodes) THEN self
    ELSE compile_each(_compile_node(self, nodes[i]), nodes, i + 1)

\* if isinstance(statement_node, Expr): self.emit_instruction(OpCode.OP_POP)
pop_expression(self, statement_node) ==
    IF statement_node.type \in ExprTypes
    THEN emit_instruction(self, "OP_POP", NoOperand, NoneV)
    ELSE self

RECURSIVE block_statements(_, _, _)
block_statements(self, statements, i) ==
    IF self.error # "" \/ i > Len(statements) THEN self
    ELSE block_statements(pop_expression(_compile_node(self, statements[i]), statements[i]),
                          statements, i + 1)

\* the end of a block that created a scope; self is the object after the statements
visit_Block_exit(self, node) ==
    IF self.error # "" THEN self
    ELSE add_scope_depth(emit_instruction(self, "OP_EXIT_SCOPE", NoOperand, TokenOf(node)), -1)

visit_Block(self, node) ==
    LET create_new_scope == node.token
    IN  IF create_new_scope
        THEN LET s1 == emit_instruction([self EXCEPT !.scope_depth = @ + 1],
                                        "OP_ENTER_SCOPE", NoOperand, TokenOf(node))
             IN  visit_Block_exit(block_statements(s1, node.statements, 1), node)
        ELSE block_statements(self, node.statements, 1)

visit_Number(self, node) == emit_with_constant(self, "OP_CONST", node.value, TokenOf(node))

visit_String(self, node) == emit_with_constant(self, "OP_CONST", node.value, TokenOf(node))

visit_UnaryOp(self, node) ==
    LET s1 == _compile_node(self, node.operand)
    IN  IF node.op = "MINUS" THEN emit_instruction(s1, "OP_NEGATE", NoOperand, Token(node.op))
        ELSE IF node.op = "not" THEN emit_instruction(s1, "OP_NOT", NoOperand, Token(node.op))
        ELSE Raise(s1, "Compiler error: Unsupported unary operator")

visit_BinaryOp(self, node) ==
    LET s1 == _compile_node(self, node.left)
        s2 == _compile_node(s1, node.right)
    IN  IF node.op \notin DOMAIN OPERATION_INTS
        THEN Raise(s2, "Binary operator not implemented.")
        ELSE emit_instruction(s2, OPERATION_INTS[node.op], NoOperand, TokenOf(node))

visit_LogicalOp(self, node) ==
    IF node.op = "or"
    THEN LET s1 == _compile_node(self, node.left)
             s2 == _compile_node(s1, node.left)
             s3 == _compile_node(s2, node.right)
         IN  emit_instruction(s3, OPERATION_INTS[node.op], NoOperand, Token(node.op))
    ELSE IF node.op = "and"
    THEN LET s1 == _compile_node(self, node.left)
             s2 == _compile_node(s1, node.right)
         IN  emit_instruction(s2, OPERATION_INTS[node.op], NoOperand, Token(node.op))
    ELSE Raise(self, "Logical keyword not implemented.")

visit_ComparisonOp(self, node) ==
    LET s1 == _compile_node(self, node.left)
        s2 == _compile_node(s1, node.right)
    IN  IF node.op \notin DOMAIN OPERATION_INTS
        THEN Raise(s2, "Comparison operator not implemented.")
        ELSE emit_instruction(s2, OPERATION_INTS[node.op], NoOperand, TokenOf(node))

\* the emission that follows name_idx = add_constant(name): the local opcode
\* if self.scope_depth > 0, the global one otherwise, with token=node.name
emit_by_scope(self, local_opcode, global_opcode, name) ==
    IF self.error # "" THEN self
    ELSE emit_with_constant(self,
             IF self.scope_depth > 0 THEN local_opcode ELSE global_opcode, StrV(name),
             Token(name))

\* the second emit_instruction(OP_DEF_GLOBAL, name_idx) of the global branch
define_global_again(self, name) ==
    IF self.scope_depth > 0 THEN self
    ELSE emit_constant(self, "OP_DEF_GLOBAL", StrV(name), Token(name))

visit_VarDeclareStmt(self, node) ==
    LET s1 == IF node.initializer # NoNode
              THEN _compile_node(self, node.initializer)
              ELSE emit_with_constant(self, "OP_CONST", NoneV, Token(node.name))
        s2 == emit_by_scope(s1,
                  IF node.is_const THEN "OP_DEF_CONST_LOCAL" ELSE "OP_DEF_LOCAL",
                  IF node.is_const THEN "OP_DEF_CONST_GLOBAL" ELSE "OP_DEF_GLOBAL",
                  node.name)
    IN  define_global_again(s2, node.name)

visit_AssignStmt(self, node) ==
    emit_by_scope(_compile_node(self, node.value), "OP_SET_LOCAL", "OP_SET_GLOBAL", node.name)

\* visit_VariableExpr without the test of the native registry
visit_VariableExpr_by_scope(self, node) ==
    emit_with_constant(self,
        IF self.scope_depth > 0 THEN "OP_GET_LOCAL" ELSE "OP_GET_GLOBAL",
        StrV(node.name), Token(node.name))

visit_VariableExpr(self, node) ==
    emit_with_constant(self,
        IF self.scope_depth > 0 /\ node.name \notin BuiltinNames
        THEN "OP_GET_LOCAL" ELSE "OP_GET_GLOBAL",
        StrV(node.name), Token(node.name))

visit_Boolean(self, node) ==
    IF node.value.b
    THEN emit_instruction(self, "OP_TRUE", NoOperand, TokenOf(node))
    ELSE emit_instruction(self, "OP_FALSE", NoOperand, TokenOf(node))

\* visit_IfStmt from the patch of the OP_JUMP_IF_FALSE on; self is the object after
\* the then branch and jump_if_false_idx the index of that jump
visit_IfStmt_else(self, node, jump_if_false_idx) ==
    IF self.error # "" THEN self
    ELSE IF node.else_branch # NoNode
    THEN LET jump_over_else_idx == Len(self.bytecode_chunk)
             s4 == emit_instruction(self, "OP_JUMP", Placeholder, TokenOf(node))
             s5 == patch_jump(s4, jump_if_false_idx)
             s6 == _compile_node(s5, node.else_branch)
         IN  patch_jump(s6, jump_over_else_idx)
    ELSE patch_jump(self, jump_if_false_idx)

\* visit_IfStmt from the OP_JUMP_IF_FALSE on; self is the object after the condition
visit_IfStmt_then(self, node) ==
    IF self.error # "" THEN self
    ELSE LET jump_if_false_idx == Len(self.bytecode_chunk)
             s2 == emit_instruction(self, "OP_JUMP_IF_FALSE", Placeholder, TokenOf(node))
             s3 == _compile_node(s2, node.then_branch)
         IN  visit_IfStmt_else(s3, node, jump_if_false_idx)

visit_IfStmt(self, node) == visit_IfStmt_then(_compile_node(self, node.condition), node)

\* loop_end_target_ip = self.bytecode_chunk[exit_loop_jump_idx].operand, and the
\* patch of the break jumps with it
patch_breaks_from(self, exit_loop_jump_idx) ==
    patch_breaks(self, self.bytecode_chunk[exit_loop_jump_idx + 1].operand)

\* visit_WhileStmt from the patch of the continue jumps on; self is the object
\* after the body
visit_WhileStmt_end(self, node, loop_start_ip, exit_loop_jump_idx) ==
    IF self.error # "" THEN self
    ELSE LET s4 == patch_continues(self, loop_start_ip)
             s5 == emit_instruction(s4, "OP_JUMP", loop_start_ip, TokenOf(node))
             s6 == patch_jump(s5, exit_loop_jump_idx)
             s7 == patch_breaks_from(s6, exit_loop_jump_idx)
         IN  pop_loop(s7)

\* visit_WhileStmt from the OP_JUMP_IF_FALSE on; self is the object after the condition
visit_WhileStmt_body(self, node, loop_start_ip) ==
    IF self.error # "" THEN self
    ELSE LET exit_loop_jump_idx == Len(self.bytecode_chunk)
             s2 == emit_instruction(self, "OP_JUMP_IF_FALSE", Placeholder, TokenOf(node))
         IN  visit_WhileStmt_end(_compile_node(s2, node.body), node, loop_start_ip,
                                 exit_loop_jump_idx)

visit_WhileStmt(self, node) ==
    LET s0 == [self EXCEPT !.loop_level = @ + 1,
                           !.loop_start_patches = Append(@, <<>>),
                           !.loop_end_patches = Append(@, <<>>)]
        loop_start_ip == Len(self.bytecode_chunk)
    IN  visit_WhileStmt_body(_compile_node(s0, node.condition), node, loop_start_ip)

visit_RangeSpecifier(self, node) ==
    LET s1 == _compile_node(self, node.start)
        s2 == _compile_node(s1, node.end)
        s3 == IF node.step # NoNode
              THEN _compile_node(s2, node.step)
              ELSE emit_with_constant(s2, "OP_CONST", IntV(1), TokenOf(node))
    IN  emit_instruction(s3, "OP_BUILD_RANGE", NoOperand, TokenOf(node))

\* break_handler_ip = len(self.bytecode_chunk), the OP_POP of the iterator there,
\* and the patch of the break jumps with it
break_handler(self, node) ==
    patch_breaks(emit_instruction(self, "OP_POP", NoOperand, TokenOf(node)),
                 Len(self.bytecode_chunk))

\* visit_ForInStmt from the jump back on; self is the object after the body.
\* after_loop_ip is len(self.bytecode_chunk) when patch_jump takes it, which is
\* patch_jump's default target.
visit_ForInStmt_end(self, node, loop_iteration_start_ip, jump_if_exhausted_idx) ==
    IF self.error # "" THEN self
    ELSE LET s9 == emit_instruction(self, "OP_JUMP", loop_iteration_start_ip, TokenOf(node))
             s10 == break_handler(s9, node)
             s11 == patch_jump(s10, jump_if_exhausted_idx)
             s12 == patch_continues(s11, loop_iteration_start_ip)
             s13 == emit_instruction(s12, "OP_EXIT_SCOPE", NoOperand, TokenOf(node))
         IN  pop_loop(add_scope_depth(s13, -1))

\* visit_ForInStmt from loop_iteration_start_ip on; self is the object after the
\* OP_DEF_LOCAL of the loop variable
visit_ForInStmt_loop(self, node) ==
    IF self.error # "" THEN self
    ELSE LET loop_iteration_start_ip == Len(self.bytecode_chunk)
             jump_if_exhausted_idx == Len(self.bytecode_chunk)
             s6 == emit_instruction(self, "OP_ITER_NEXT_OR_JUMP", Placeholder, TokenOf(node))
             s7 == emit_constant(s6, "OP_SET_LOCAL", StrV(node.loop_variable),
                                 Token(node.loop_variable))
         IN  visit_ForInStmt_end(_compile_node(s7, node.body), node,
                                 loop_iteration_start_ip, jump_if_exhausted_idx)

visit_ForInStmt(self, node) ==
    LET s0 == [self EXCEPT !.loop_level = @ + 1,
                           !.loop_end_patches = Append(@, <<>>),
                           !.loop_start_patches = Append(@, <<>>),
                           !.scope_depth = @ + 1]
        s1 == emit_instruction(s0, "OP_ENTER_SCOPE", NoOperand, TokenOf(node))
        s2 == _compile_node(s1, node.iterable)
        s3 == emit_instruction(s2, "OP_ITER_NEW", NoOperand,
                               TokenOr(TokenOf(node.iterable), TokenOf(node)))
        s4 == add_constant(s3, StrV(node.loop_variable))
        s5 == emit_with_constant(s4, "OP_CONST", NoneV, Token(node.loop_variable))
        s6 == emit_constant(s5, "OP_DEF_LOCAL", StrV(node.loop_variable),
                            Token(node.loop_variable))
    IN  visit_ForInStmt_loop(s6, node)

visit_ArrayLiteral(self, node) ==
    emit_instruction(compile_each(self, node.elements, 1), "OP_BUILD_LIST", Len(node.elements),
                     TokenOf(node))

\* visit_BreakStmt with the jump recorded in the list of the outermost loop
visit_BreakStmt_outermost(self, node) ==
    IF self.loop_level = 0
    THEN Raise(self, "CompileError: 'break' outside loop")
    ELSE LET jump_idx == Len(self.bytecode_chunk)
             s1 == emit_instruction(self, "OP_JUMP", Placeholder, TokenOf(node))
         IN  [s1 EXCEPT !.loop_end_patches[1] = Append(@, jump_idx)]

visit_BreakStmt(self, node) ==
    IF self.loop_level = 0
    THEN Raise(self, "CompileError: 'break' outside loop")
    ELSE LET jump_idx == Len(self.bytecode_chunk)
             s1 == emit_instruction(self, "OP_JUMP", Placeholder, TokenOf(node))
         IN  [s1 EXCEPT !.loop_end_patches[Len(self.loop_end_patches)] = Append(@, jump_idx)]

\* visit_ContinueStmt that records the jump in the list of the breaks
visit_ContinueStmt_to_loop_end(self, node) ==
    IF self.loop_level = 0
    THEN Raise(self, "CompileError: 'continue' outside loop")
    ELSE LET jump_idx == Len(self.bytecode_chunk)
             s1 == emit_instruction(self, "OP_JUMP", Placeholder, TokenOf(node))
         IN  [s1 EXCEPT !.loop_end_patches[Len(self.loop_end_patches)] = Append(@, jump_idx)]

visit_ContinueStmt(self, node) ==
    IF self.loop_level = 0
    THEN Raise(self, "CompileError: 'continue' outside loop")
    ELSE LET jump_idx == Len(self.bytecode_chunk)
             s1 == emit_instruction(self, "OP_JUMP", Placeholder, TokenOf(node))
         IN  [s1 EXCEPT !.loop_start_patches[Len(self.loop_start_patches)] = Append(@, jump_idx)]

\* the prelude with the parameters in declaration order
RECURSIVE def_params_in_order(_, _, _)
def_params_in_order(self, params, i) ==
    IF self.error # "" \/ i < 1 THEN self
    ELSE def_params_in_order(
            emit_with_constant(self, "OP_DEF_LOCAL", StrV(params[Len(params) - i + 1]),
                               Token(params[Len(params) - i + 1])),
            params, i - 1)

\* for param_token in reversed(params): emit DEF_LOCAL(add_constant(param))
RECURSIVE def_params(_, _, _)
def_params(self, params, i) ==
    IF self.error # "" \/ i < 1 THEN self
    ELSE def_params(emit_with_constant(self, "OP_DEF_LOCAL", StrV(params[i]), Token(params[i])),
                    params, i - 1)

\* the part FunctionDefStmt and FunctionExpr share, from the implicit return on:
\* patch of the JUMP, the function constant and its OP_CONST, which carries
\* node.name for a FunctionDefStmt and node.token for a FunctionExpr; self is
\* the object after the body
function_code_end(self, node, func_obj, jump_over_body_idx, enclosing_scope_depth) ==
    IF self.error # "" THEN self
    ELSE LET s5 == emit_instruction(self, "OP_EXIT_SCOPE", NoOperand,
                                    TokenOr(TokenOf(node.body), TokenOf(node)))
             s6 == emit_with_constant(s5, "OP_CONST", NoneV, TokenOf(node))
             s7 == emit_instruction(s6, "OP_RETURN", NoOperand, TokenOf(node))
             s8 == patch_jump(set_scope_depth(s7, enclosing_scope_depth),
                              jump_over_body_idx)
         IN  emit_with_constant(s8, "OP_CONST", func_obj,
                                IF node.type = "FunctionDefStmt" THEN Token(node.name)
                                ELSE TokenOf(node))

\* function_code whose function object starts after the OP_ENTER_SCOPE
function_code_starts_at_params(self, node, name) ==
    LET jump_over_body_idx == Len(self.bytecode_chunk)
        s1 == emit_instruction(self, "OP_JUMP", Placeholder, TokenOf(node))
        function_start_ip == Len(s1.bytecode_chunk)
        enclosing_scope_depth == s1.scope_depth
        s2 == emit_instruction(add_scope_depth(s1, 1), "OP_ENTER_SCOPE", NoOperand,
                               TokenOf(node))
        s3 == def_params(s2, node.params, Len(node.params))
        func_obj == PyleFunction(name, Len(node.params), function_start_ip + 1, "")
    IN  function_code_end(_compile_node(s3, node.body), node, func_obj, jump_over_body_idx,
                          enclosing_scope_depth)

\* the part FunctionDefStmt and FunctionExpr share: JUMP over the body, prelude
\* and body
function_code(self, node, name) ==
    LET jump_over_body_idx == Len(self.bytecode_chunk)
        s1 == emit_instruction(self, "OP_JUMP", Placeholder, TokenOf(node))
        function_start_ip == Len(s1.bytecode_chunk)
        enclosing_scope_depth == s1.scope_depth
        s2 == emit_instruction(add_scope_depth(s1, 1), "OP_ENTER_SCOPE", NoOperand,
                               TokenOf(node))
        s3 == def_params(s2, node.params, Len(node.params))
        func_obj == PyleFunction(name, Len(node.params), function_start_ip, "")
    IN  function_code_end(_compile_node(s3, node.body), node, func_obj, jump_over_body_idx,
                          enclosing_scope_depth)

visit_FunctionDefStmt(self, node) ==
    emit_by_scope(function_code(self, node, node.name),
                  "OP_DEF_LOCAL", "OP_DEF_GLOBAL", node.name)

visit_FunctionExpr(self, node) == function_code(self, node, "<lambda>")

\* for kw in node.keywords: self._compile_node(kw.value)
RECURSIVE compile_keywords(_, _, _)
compile_keywords(self, keywords, i) ==
    IF self.error # "" \/ i > Len(keywords) THEN self
    ELSE compile_keywords(_compile_node(self, keywords[i].value), keywords, i + 1)

\* emit_instruction(OP_CALL_KW, (len(node.arguments), len(node.keywords)), token)
emit_call_kw(self, arguments, keywords, token) ==
    Unless(self, [self EXCEPT
        !.bytecode_chunk =
            Append(@, [opcode |-> "OP_CALL_KW", operand |-> arguments, operand_kw |-> keywords]),
        !.token_map = IF token = NoneV THEN @
                      ELSE MapPut(@, Len(self.bytecode_chunk), token)])

visit_CallExpr(self, node) ==
    LET s1 == _compile_node(self, node.callee)
        s2 == compile_each(s1, node.arguments, 1)
        s3 == compile_keywords(s2, node.keywords, 1)
    IN  IF Len(node.keywords) > 0
        THEN LET kw_names == NameListV([i \in 1..Len(node.keywords) |-> node.keywords[i].name])
                 s4 == emit_with_constant(s3, "OP_CONST", kw_names, TokenOf(node))
                 s5 == emit_instruction(s4, "OP_BUILD_KWARGS", Len(node.keywords), TokenOf(node))
             IN  emit_call_kw(s5, Len(node.arguments), Len(node.keywords), TokenOf(node))
        ELSE emit_instruction(s3, "OP_CALL", Len(node.arguments), TokenOf(node))

visit_ReturnStmt(self, node) ==
    LET s1 == IF node.value # NoNode
              THEN _compile_node(self, node.value)
              ELSE emit_with_constant(self, "OP_CONST", NoneV, TokenOf(node))
    IN  emit_instruction(s1, "OP_RETURN", NoOperand, TokenOf(node))

visit_IndexExpr(self, node) ==
    LET s1 == _compile_node(self, node.collection)
        s2 == _compile_node(s1, node.index)
    IN  emit_instruction(s2, "OP_INDEX_GET", NoOperand, TokenOf(node))

visit_AssignIndexStmt(self, node) ==
    LET s1 == _compile_node(self, node.collection)
        s2 == _compile_node(s1, node.index)
        s3 == _compile_node(s2, node.value)
    IN  emit_instruction(s3, "OP_INDEX_SET", NoOperand, TokenOf(node))

visit_DotExpr(self, node) ==
    LET s1 == _compile_node(self, node.object)
    IN  emit_with_constant(s1, "OP_GET_ATTR", StrV(node.attr), TokenOf(node))

generic_visit(self, node) == Raise(self, "No visit method in Compiler")

\* nothing runs after a visitor has raised
_compile_node(self, node) ==
    IF self.error # "" THEN self
    ELSE CASE node.type = "Block" -> visit_Block(self, node)
           [] node.type = "Number" -> visit_Number(self, node)
           [] node.type = "String" -> visit_String(self, node)
           [] node.type = "UnaryOp" -> visit_UnaryOp(self, node)
           [] node.type = "BinaryOp" -> visit_BinaryOp(self, node)
           [] node.type = "LogicalOp" -> visit_LogicalOp(self, node)
           [] node.type = "ComparisonOp" -> visit_ComparisonOp(self, node)
           [] node.type = "VarDeclareStmt" -> visit_VarDeclareStmt(self, node)
           [] node.type = "AssignStmt" -> visit_AssignStmt(self, node)
           [] node.type = "VariableExpr" -> visit_VariableExpr(self, node)
           [] node.type = "Boolean" -> visit_Boolean(self, node)
           [] node.type = "IfStmt" -> visit_IfStmt(self, node)
           [] node.type = "WhileStmt" -> visit_WhileStmt(self, node)
           [] node.type = "RangeSpecifier" -> visit_RangeSpecifier(self, node)
           [] node.type = "ForInStmt" -> visit_ForInStmt(self, node)
           [] node.type = "ArrayLiteral" -> visit_ArrayLiteral(self, node)
           [] node.type = "BreakStmt" -> visit_BreakStmt(self, node)
           [] node.type = "ContinueStmt" -> visit_ContinueStmt(self, node)
           [] node.type = "FunctionDefStmt" -> visit_FunctionDefStmt(self, node)
           [] node.type = "CallExpr" -> visit_CallExpr(self, node)
           [] node.type = "ReturnStmt" -> visit_ReturnStmt(self, node)
           [] node.type = "FunctionExpr" -> visit_FunctionExpr(self, node)
           [] node.type = "IndexExpr" -> visit_IndexExpr(self, node)
           [] node.type = "AssignIndexStmt" -> visit_AssignIndexStmt(self, node)
           [] node.type = "DotExpr" -> visit_DotExpr(self, node)
           [] OTHER -> generic_visit(self, node)

\* compile from the OP_EXIT_SCOPE of the main scope on; self is the object after
\* the program's node
compile_end(self) ==
    IF self.error # "" THEN self
    ELSE LET s3 == set_scope_depth(emit_instruction(self, "OP_EXIT_SCOPE", NoOperand, NoneV), 0)
             s4 == emit_with_constant(s3, "OP_CONST", NoneV, NoneV)
         IN  emit_instruction(s4, "OP_RETURN", NoOperand, NoneV)

\* compile without the reset of loop_level and of the two lists of patches
compile_keeps_loops(self, node) ==
    LET s0 == _initialize_builtins(
                  [self EXCEPT !.bytecode_chunk = <<>>, !.constants = <<>>,
                               !.scope_depth = 0, !.token_map = [i \in {} |-> NoneV],
                               !.error = ""])
        s1 == set_scope_depth(emit_instruction(s0, "OP_ENTER_SCOPE", NoOperand, NoneV), 1)
    IN  compile_end(_compile_node(s1, node))

\* Compiler.compile: the fields are reset, then the prelude, the main scope and
\* the node are compiled.  The returned object holds the chunk in bytecode_chunk
\* and constants; a non-empty error means the call raised and returned nothing
\* (a new call starts with no exception pending)
compile(self, node) ==
    LET s0 == _initialize_builtins(
                  [self EXCEPT !.bytecode_chunk = <<>>, !.constants = <<>>,
                               !.scope_depth = 0, !.token_map = [i \in {} |-> NoneV],
                               !.loop_level = 0, !.loop_start_patches = <<>>,
                               !.loop_end_patches = <<>>, !.error = ""])
        s1 == set_scope_depth(emit_instruction(s0, "OP_ENTER_SCOPE", NoOperand, NoneV), 1)
    IN  compile_end(_compile_node(s1, node))

(***************************************************************************)
(* The host operations the VM applies to values (Python 3 semantics).      *)
(* Each returns the value, the exception it raises ("" for none) and the   *)
(* heap afterwards.                                                        *)
(***************************************************************************)
ListObj(items) == [k |-> "list", items |-> items]
\* src is the heap reference of the list, 0 once the iterator is exhausted
\* (a list iterator drops its list at the first StopIteration)
ListIter(src, pos) == [k |-> "list_iterator", src |-> src, pos |-> pos]
DictIter(keys, pos) == [k |-> "dict_keyiterator", keys |-> keys, pos |-> pos]
StrIter(s, pos) == [k |-> "str_iterator", s |-> s, pos |-> pos]
RangeIter(cur, stop, step) == [k |-> "range_iterator", cur |-> cur, stop |-> stop, step |-> step]

Ok(v, h) == [exc |-> "", v |-> v, h |-> h]
Exc(e, h) == [exc |-> e, v |-> NoneV, h |-> h]
NewList(items, h) == Ok(ListV(Len(h) + 1), Append(h, ListObj(items)))

Min(a, b) == IF a < b THEN a ELSE b
Max(a, b) == IF a > b THEN a ELSE b

\* floor(x / y) for y # 0
FloorDiv(x, y) == IF y < 0 THEN (-x) \div (-y) ELSE x \div y

MkNum(n, d, float) == IF float THEN FloatV(n, d) ELSE IntV(FloorDiv(n, d))
EitherFloat(a, b) == a.t = "Float" \/ b.t = "Float"

\* the characters of a string; strings are atoms here, so the strings that are
\* indexed, iterated or ordered come from this table
Letters(s) ==
    CASE s = "" -> <<>>
      [] Len(s) = 1 -> <<s>>
      [] s = "xy" -> <<"x", "y">>
      [] s = "yx" -> <<"y", "x">>
      [] s = "xx" -> <<"x", "x">>
      [] s = "ab" -> <<"a", "b">>
      [] s = "abab" -> <<"a", "b", "a", "b">>

CharOrder == <<"a", "b", "x", "y">>
CharRank(c) == CHOOSE i \in 1..Len(CharOrder) : CharOrder[i] = c

RECURSIVE Join(_, _)
Join(letters, i) == IF i > Len(letters) THEN "" ELSE letters[i] \o Join(letters, i + 1)

RECURSIVE StrRepeat(_, _)
StrRepeat(s, n) == IF n <= 0 THEN "" ELSE s \o StrRepeat(s, n - 1)

RECURSIVE SeqRepeat(_, _)
SeqRepeat(s, n) == IF n <= 0 THEN <<>> ELSE s \o SeqRepeat(s, n - 1)

\* bool(value)
Truthy(h, v) ==
    CASE v.t = "None" -> FALSE
      [] v.t = "Bool" -> v.b
      [] v.t = "Int" -> v.i # 0
      [] v.t = "Float" -> v.n # 0
      [] v.t = "Str" -> v.s # ""
      [] v.t = "List" -> h[v.ref].items # <<>>
      [] v.t = "NameList" -> v.names # <<>>
      [] v.t = "KwArgs" -> DOMAIN v.d # {}
      [] OTHER -> TRUE

PyAddNum(h, a, b) ==
    Ok(MkNum(NumN(a) * NumD(b) + NumN(b) * NumD(a), NumD(a) * NumD(b), EitherFloat(a, b)), h)

\* left - right
PySub(h, a, b) ==
    IF IsNum(a) /\ IsNum(b)
    THEN Ok(MkNum(NumN(a) * NumD(b) - NumN(b) * NumD(a), NumD(a) * NumD(b), EitherFloat(a, b)), h)
    ELSE Exc("TypeError", h)

\* left * right: numbers multiply, a str or list is repeated by an int or bool
PyMul(h, a, b) ==
    IF IsNum(a) /\ IsNum(b)
    THEN Ok(MkNum(NumN(a) * NumN(b), NumD(a) * NumD(b), EitherFloat(a, b)), h)
    ELSE IF a.t = "Str" /\ IsInt(b) THEN Ok(StrV(StrRepeat(a.s, NumN(b))), h)
    ELSE IF IsInt(a) /\ b.t = "Str" THEN Ok(StrV(StrRepeat(b.s, NumN(a))), h)
    ELSE IF a.t = "List" /\ IsInt(b) THEN NewList(SeqRepeat(h[a.ref].items, NumN(b)), h)
    ELSE IF IsInt(a) /\ b.t = "List" THEN NewList(SeqRepeat(h[b.ref].items, NumN(a)), h)
    ELSE Exc("TypeError", h)

\* left / right, for right # 0 (the VM tests right == 0 first)
PyTrueDiv(h, a, b) ==
    IF IsNum(a) /\ IsNum(b)
    THEN Ok(FloatV(NumN(a) * NumD(b), NumD(a) * NumN(b)), h)
    ELSE Exc("TypeError", h)

\* left % right, for right # 0: floored modulo on numbers; a str is a format
\* string (none here has a % directive), which only accepts a list operand
PyMod(h, a, b) ==
    IF IsNum(a) /\ IsNum(b)
    THEN LET x == NumN(a) * NumD(b)
             y == NumD(a) * NumN(b)
             quot == FloorDiv(x, y)
         IN  Ok(MkNum(NumN(a) * NumD(b) - quot * NumN(b) * NumD(a), NumD(a) * NumD(b),
                      EitherFloat(a, b)), h)
    ELSE IF a.t = "Str" /\ b.t = "List" THEN Ok(a, h)
    ELSE Exc("TypeError", h)

\* -1, 0, 1 as a < b, a == b, a > b for two strs (by code point)
RECURSIVE LettersCmp(_, _, _)
LettersCmp(x, y, i) ==
    IF i > Len(x) /\ i > Len(y) THEN 0
    ELSE IF i > Len(x) THEN -1
    ELSE IF i > Len(y) THEN 1
    ELSE IF CharRank(x[i]) < CharRank(y[i]) THEN -1
    ELSE IF CharRank(x[i]) > CharRank(y[i]) THEN 1
    ELSE LettersCmp(x, y, i + 1)

OrdHolds(op, sign) ==
    CASE op = "<" -> sign < 0
      [] op = "<=" -> sign <= 0
      [] op = ">" -> sign > 0
      [] op = ">=" -> sign >= 0

\* left op right for op among < <= > >=
RECURSIVE PyOrd(_, _, _, _)
PyOrd(h, op, a, b) ==
    IF IsNum(a) /\ IsNum(b)
    THEN Ok(BoolV(OrdHolds(op, NumN(a) * NumD(b) - NumN(b) * NumD(a))), h)
    ELSE IF a.t = "Str" /\ b.t = "Str"
    THEN Ok(BoolV(OrdHolds(op, LettersCmp(Letters(a.s), Letters(b.s), 1))), h)
    ELSE IF a.t = "List" /\ b.t = "List"
    THEN LET x == h[a.ref].items
             y == h[b.ref].items
             n == Min(Len(x), Len(y))
             differ == {i \in 1..n : ~PyEq(h, x[i], y[i])}
         IN  IF differ = {}
             THEN Ok(BoolV(OrdHolds(op, Len(x) - Len(y))), h)
             ELSE LET i == CHOOSE j \in differ : \A k \in differ : j <= k
                  IN  PyOrd(h, op, x[i], y[i])
    ELSE Exc("TypeError", h)

\* the indices slice(start, stop, step).indices(len) selects, step # 0
SliceIndices(len, start, stop, step) ==
    IF step > 0
    THEN LET lo == IF start < 0 THEN Max(start + len, 0) ELSE Min(start, len)
             hi == IF stop < 0 THEN Max(stop + len, 0) ELSE Min(stop, len)
             n == IF hi > lo THEN (hi - lo - 1) \div step + 1 ELSE 0
         IN  [k \in 1..n |-> lo + (k - 1) * step]
    ELSE LET lo == IF start < 0 THEN Max(start + len, -1) ELSE Min(start, len - 1)
             hi == IF stop < 0 THEN Max(stop + len, -1) ELSE Min(stop, len - 1)
             n == IF lo > hi THEN (lo - hi - 1) \div (-step) + 1 ELSE 0
         IN  [k \in 1..n |-> lo + (k - 1) * step]

\* collection[index.start:index.end:index.step] when index is a Range, else
\* collection[index]
PyGetItem(h, collection, index) ==
    IF collection.t \notin {"List", "Str"} THEN Exc("TypeError", h)
    ELSE LET items == IF collection.t = "List" THEN h[collection.ref].items
                      ELSE Letters(collection.s)
         IN  IF index.t = "Range"
             THEN IF ~IsInt(index.step) THEN Exc("TypeError", h)
                  ELSE IF NumN(index.step) = 0 THEN Exc("ValueError", h)
                  ELSE IF ~IsInt(index.start) \/ ~IsInt(index.end) THEN Exc("TypeError", h)
                  ELSE LET idx == SliceIndices(Len(items), NumN(index.start),
                                               NumN(index.end), NumN(index.step))
                           picked == [k \in 1..Len(idx) |-> items[idx[k] + 1]]
                       IN  IF collection.t = "List" THEN NewList(picked, h)
                           ELSE Ok(StrV(Join(picked, 1)), h)
             ELSE IF ~IsInt(index) THEN Exc("TypeError", h)
             ELSE LET i == IF NumN(index) < 0 THEN NumN(index) + Len(items) ELSE NumN(index)
                  IN  IF i < 0 \/ i >= Len(items) THEN Exc("IndexError", h)
                      ELSE IF collection.t = "List" THEN Ok(items[i + 1], h)
                      ELSE Ok(StrV(items[i + 1]), h)

\* collection[index] = value on a list
PySetItem(h, collection, index, value) ==
    IF ~IsInt(index) THEN Exc("TypeError", h)
    ELSE LET items == h[collection.ref].items
             i == IF NumN(index) < 0 THEN NumN(index) + Len(items) ELSE NumN(index)
         IN  IF i < 0 \/ i >= Len(items) THEN Exc("IndexError", h)
             ELSE Ok(value, [h EXCEPT ![collection.ref].items[i + 1] = value])

\* getattr(obj, attr_name), for the attribute names of AttrNames
AttrNames == {"start", "end", "step", "name", "arity", "append", "sort", "nope"}

PyGetAttr(h, obj, attr_name) ==
    IF obj.t = "Range" /\ attr_name \in {"start", "end", "step"}
    THEN Ok(CASE attr_name = "start" -> obj.start
              [] attr_name = "end" -> obj.end
              [] attr_name = "step" -> obj.step, h)
    ELSE IF obj.t = "Fn" /\ attr_name = "name" THEN Ok(StrV(obj.name), h)
    ELSE IF obj.t = "Fn" /\ attr_name = "arity" THEN Ok(IntV(obj.arity), h)
    ELSE IF obj.t = "List" /\ attr_name \in {"append", "sort"}
    THEN Ok(MethodV(obj, attr_name), h)
    ELSE Exc("AttributeError", h)

\* iter(iterable) with a Range.__iter__ that includes the end:
\* iter(range(start, end + 1, step))
PyIter_end_inclusive(h, iterable) ==
    CASE iterable.t = "List" ->
            Ok(IterV(Len(h) + 1), Append(h, ListIter(iterable.ref, 0)))
      [] iterable.t = "Str" ->
            Ok(IterV(Len(h) + 1), Append(h, StrIter(iterable.s, 0)))
      [] iterable.t = "Range" ->
            IF ~IsInt(iterable.start) \/ ~IsInt(iterable.end) \/ ~IsInt(iterable.step)
            THEN Exc("TypeError", h)
            ELSE IF NumN(iterable.step) = 0 THEN Exc("ValueError", h)
            ELSE Ok(IterV(Len(h) + 1),
                    Append(h, RangeIter(NumN(iterable.start), NumN(iterable.end) + 1,
                                        NumN(iterable.step))))
      [] iterable.t = "KwArgs" ->
            Ok(IterV(Len(h) + 1), Append(h, DictIter(iterable.keys, 0)))
      [] iterable.t = "Iter" -> Ok(iterable, h)
      [] OTHER -> Exc("TypeError", h)

\* iter(iterable); Range.__iter__ is iter(range(start, end, step))
PyIter(h, iterable) ==
    CASE iterable.t = "List" ->
            Ok(IterV(Len(h) + 1), Append(h, ListIter(iterable.ref, 0)))
      [] iterable.t = "Str" ->
            Ok(IterV(Len(h) + 1), Append(h, StrIter(iterable.s, 0)))
      [] iterable.t = "Range" ->
            IF ~IsInt(iterable.start) \/ ~IsInt(iterable.end) \/ ~IsInt(iterable.step)
            THEN Exc("TypeError", h)
            ELSE IF NumN(iterable.step) = 0 THEN Exc("ValueError", h)
            ELSE Ok(IterV(Len(h) + 1),
                    Append(h, RangeIter(NumN(iterable.start), NumN(iterable.end),
                                        NumN(iterable.step))))
      [] iterable.t = "KwArgs" ->
            Ok(IterV(Len(h) + 1), Append(h, DictIter(iterable.keys, 0)))
      [] iterable.t = "Iter" -> Ok(iterable, h)
      [] OTHER -> Exc("TypeError", h)

\* next(iterator)
PyNext(h, iterator) ==
    IF iterator.t # "Iter" THEN Exc("TypeError", h)
    ELSE LET it == h[iterator.ref]
         IN  CASE it.k = "list_iterator" ->
                    IF it.src # 0 /\ it.pos < Len(h[it.src].items)
                    THEN Ok(h[it.src].items[it.pos + 1],
                            [h EXCEPT ![iterator.ref].pos = @ + 1])
                    ELSE Exc("StopIteration", [h EXCEPT ![iterator.ref].src = 0])
               [] it.k = "dict_keyiterator" ->
                    IF it.pos < Len(it.keys)
                    THEN Ok(StrV(it.keys[it.pos + 1]),
                            [h EXCEPT ![iterator.ref].pos = @ + 1])
                    ELSE Exc("StopIteration", h)
               [] it.k = "str_iterator" ->
                    IF it.pos < Len(it.s)
                    THEN Ok(StrV(Letters(it.s)[it.pos + 1]),
                            [h EXCEPT ![iterator.ref].pos = @ + 1])
                    ELSE Exc("StopIteration", h)
               [] it.k = "range_iterator" ->
                    IF (it.step > 0 /\ it.cur < it.stop) \/ (it.step < 0 /\ it.cur > it.stop)
                    THEN Ok(IntV(it.cur), [h EXCEPT ![iterator.ref].cur = @ + it.step])
                    ELSE Exc("StopIteration", h)

(***************************************************************************)
(* The native registry's host functions (pyle_builtins.py): the outcomes   *)
(* of native_fn(vm, *args).  scan reads a line of standard input and       *)
(* perf_counter reads a clock, so each has several outcomes; no module     *)
(* name a program passes to importpy can be imported.                      *)
(***************************************************************************)
ScanLines == {"", "a"}
PerfCounts == {1, 2}

NativeCall(h, native_fn, args) ==
    CASE native_fn = "native_echo" -> {Ok(NoneV, h)}
      [] native_fn = "native_len" ->
            IF args[1].t = "Str" THEN {Ok(IntV(Len(args[1].s)), h)}
            ELSE IF args[1].t = "List" THEN {Ok(IntV(Len(h[args[1].ref].items)), h)}
            ELSE {Exc("TypeError", h)}
      [] native_fn = "native_scan" ->
            {Ok(StrV(s), h) : s \in ScanLines} \cup {Exc("EOFError", h)}
      [] native_fn = "native_perf_counter" -> {Ok(FloatV(n, 1), h) : n \in PerfCounts}
      [] native_fn = "native_import_py" ->
            IF args[1].t = "Str" THEN {Exc("ModuleNotFoundError", h)}
            ELSE {Exc("TypeError", h)}
      [] native_fn = "native_get_attr" ->
            IF args[2].t = "Str" THEN {PyGetAttr(h, args[1], args[2].s)}
            ELSE {Exc("TypeError", h)}

\* x put into the sorted sequence s behind every element that is not greater
PyInsort(h, s, x) ==
    LET k == Len(s) - Cardinality({i \in 1..Len(s) : PyOrd(h, "<", x, s[i]).v.b})
    IN  SubSeq(s, 1, k) \o <<x>> \o SubSeq(s, k + 1, Len(s))

RECURSIVE PySorted(_, _)
\* the stable ascending order of items under <
PySorted(h, items) ==
    IF items = <<>> THEN <<>>
    ELSE PyInsort(h, PySorted(h, SubSeq(items, 1, Len(items) - 1)), items[Len(items)])

Reversed(s) == [i \in 1..Len(s) |-> s[Len(s) + 1 - i]]

\* list.sort(*, key=None, reverse=False): the list is sorted in place and the
\* call returns None; reverse has to be an int; two items that < does not
\* order raise TypeError (the order a failed sort leaves behind is not kept)
PyListSort(h, ref, reverse) ==
    LET items == h[ref].items
    IN  IF ~IsInt(reverse) THEN Exc("TypeError", h)
        ELSE IF \E i, j \in 1..Len(items) : i # j /\ PyOrd(h, "<", items[i], items[j]).exc # ""
        THEN Exc("TypeError", h)
        ELSE Ok(NoneV, [h EXCEPT ![ref].items =
                            IF NumN(reverse) # 0
                            THEN Reversed(PySorted(h, Reversed(items)))
                            ELSE PySorted(h, items)])

\* function_to_call(*args) for a host callable: a bound method of a list,
\* append(object) or sort()
HostCall(h, callee, args) ==
    IF callee.attr = "append" /\ Len(args) = 1
    THEN Ok(NoneV, [h EXCEPT ![callee.self.ref].items = Append(@, args[1])])
    ELSE IF callee.attr = "sort" /\ Len(args) = 0
    THEN PyListSort(h, callee.self.ref, BoolV(FALSE))
    ELSE Exc("TypeError", h)

\* func(*args, **kwargs): ** wants a mapping, a PyleFunction is not callable,
\* list.append takes no keyword, list.sort takes reverse (key is modelled for
\* values that are not callable: they are called once per item)
HostCallKw(h, func, args, kwargs) ==
    IF kwargs.t # "KwArgs" \/ func.t # "Method" THEN Exc("TypeError", h)
    ELSE IF kwargs.keys = <<>> THEN HostCall(h, func, args)
    ELSE IF func.attr # "sort" \/ Len(args) # 0 THEN Exc("TypeError", h)
    ELSE IF \E i \in 1..Len(kwargs.keys) : kwargs.keys[i] \notin {"key", "reverse"}
    THEN Exc("TypeError", h)
    ELSE IF /\ "key" \in DOMAIN kwargs.d
            /\ kwargs.d["key"] # NoneV
            /\ h[func.self.ref].items # <<>>
    THEN Exc("TypeError", h)
    ELSE PyListSort(h, func.self.ref,
                    IF "reverse" \in DOMAIN kwargs.d THEN kwargs.d["reverse"]
                    ELSE BoolV(FALSE))

(***************************************************************************)
(* Result (pyle_errors.py)                                                 *)
(***************************************************************************)
PyleRuntimeError(msg, token) == [t |-> "PyleRuntimeError", msg |-> msg, tok |-> token]
Result(ok_val, err_val) == [ok_val |-> ok_val, err_val |-> err_val]
Result_ok(value) == Result(value, NoneV)
Result_err(error) == Result(NoneV, error)
is_err(r) == r.err_val # NoneV
is_ok(r) == r.ok_val # NoneV

(***************************************************************************)
(* The programs handed to the compiler.                                    *)
(***************************************************************************)
\* BEGIN CATALOGUE
\* let x = 2 + 3 * 4; x
P_S1 ==
    Block(<<VarDeclareStmt("x", BinaryOp(Number(IntV(2)), "PLUS", BinaryOp(Number(IntV(3)), "MUL", Number(IntV(4)))), FALSE), VariableExpr("x")>>, FALSE)

\* let x = 2 + 3 * 4; return x
P_S1_return ==
    Block(<<VarDeclareStmt("x", BinaryOp(Number(IntV(2)), "PLUS", BinaryOp(Number(IntV(3)), "MUL", Number(IntV(4)))), FALSE), ReturnStmt(VariableExpr("x"))>>, FALSE)

\* let x = 1; { let x = 2; } x
P_S2 ==
    Block(<<VarDeclareStmt("x", Number(IntV(1)), FALSE), Block(<<VarDeclareStmt("x", Number(IntV(2)), FALSE)>>, TRUE), VariableExpr("x")>>, FALSE)

\* let x = 1; { let x = 2; } return x
P_S2_return ==
    Block(<<VarDeclareStmt("x", Number(IntV(1)), FALSE), Block(<<VarDeclareStmt("x", Number(IntV(2)), FALSE)>>, TRUE), ReturnStmt(VariableExpr("x"))>>, FALSE)

\* let i = 0; while i < 10 { if i == 3 { break } i = i + 1 } i
P_S3 ==
    Block(<<VarDeclareStmt("i", Number(IntV(0)), FALSE), WhileStmt(ComparisonOp(VariableExpr("i"), "LT", Number(IntV(10))), Block(<<IfStmt(ComparisonOp(VariableExpr("i"), "EQ", Number(IntV(3))), Block(<<BreakStmt>>, TRUE), NoNode), AssignStmt("i", BinaryOp(VariableExpr("i"), "PLUS", Number(IntV(1))))>>, TRUE)), VariableExpr("i")>>, FALSE)

\* let s = 0; for i in 1:5 { s = s + i } s
P_S4 ==
    Block(<<VarDeclareStmt("s", Number(IntV(0)), FALSE), ForInStmt("i", RangeSpecifier(Number(IntV(1)), Number(IntV(5)), NoNode), Block(<<AssignStmt("s", BinaryOp(VariableExpr("s"), "PLUS", VariableExpr("i")))>>, TRUE)), VariableExpr("s")>>, FALSE)

\* let s = 0; for i in 1:5 { s = s + i } return s
P_S4_return ==
    Block(<<VarDeclareStmt("s", Number(IntV(0)), FALSE), ForInStmt("i", RangeSpecifier(Number(IntV(1)), Number(IntV(5)), NoNode), Block(<<AssignStmt("s", BinaryOp(VariableExpr("s"), "PLUS", VariableExpr("i")))>>, TRUE)), ReturnStmt(VariableExpr("s"))>>, FALSE)

\* fn fact(n) { if n <= 1 { return 1 } return n * fact(n - 1) } fact(5)
P_S5 ==
    Block(<<FunctionDefStmt("fact", <<"n">>, Block(<<IfStmt(ComparisonOp(VariableExpr("n"), "LTE", Number(IntV(1))), Block(<<ReturnStmt(Number(IntV(1)))>>, TRUE), NoNode), ReturnStmt(BinaryOp(VariableExpr("n"), "MUL", CallExpr(VariableExpr("fact"), <<BinaryOp(VariableExpr("n"), "MINUS", Number(IntV(1)))>>, <<>>)))>>, TRUE)), CallExpr(VariableExpr("fact"), <<Number(IntV(5))>>, <<>>)>>, FALSE)

\* fn fact(n) { if n <= 1 { return 1 } return n * fact(n - 1) } return fact(5)
P_S5_return ==
    Block(<<FunctionDefStmt("fact", <<"n">>, Block(<<IfStmt(ComparisonOp(VariableExpr("n"), "LTE", Number(IntV(1))), Block(<<ReturnStmt(Number(IntV(1)))>>, TRUE), NoNode), ReturnStmt(BinaryOp(VariableExpr("n"), "MUL", CallExpr(VariableExpr("fact"), <<BinaryOp(VariableExpr("n"), "MINUS", Number(IntV(1)))>>, <<>>)))>>, TRUE)), ReturnStmt(CallExpr(VariableExpr("fact"), <<Number(IntV(5))>>, <<>>))>>, FALSE)

\* const k = 7; k = 8
P_S6 ==
    Block(<<VarDeclareStmt("k", Number(IntV(7)), TRUE), AssignStmt("k", Number(IntV(8)))>>, FALSE)

\* let a = [1,2,3]; a[1] = 10; let s = "x" + "y"; a
P_S7 ==
    Block(<<VarDeclareStmt("a", ArrayLiteral(<<Number(IntV(1)), Number(IntV(2)), Number(IntV(3))>>), FALSE), AssignIndexStmt(VariableExpr("a"), Number(IntV(1)), Number(IntV(10))), VarDeclareStmt("s", BinaryOp(String("x"), "PLUS", String("y")), FALSE), VariableExpr("a")>>, FALSE)

\* let a = [1,2,3]; a[1] = 10; let s = "x" + "y"; return [a, s]
P_S7_return ==
    Block(<<VarDeclareStmt("a", ArrayLiteral(<<Number(IntV(1)), Number(IntV(2)), Number(IntV(3))>>), FALSE), AssignIndexStmt(VariableExpr("a"), Number(IntV(1)), Number(IntV(10))), VarDeclareStmt("s", BinaryOp(String("x"), "PLUS", String("y")), FALSE), ReturnStmt(ArrayLiteral(<<VariableExpr("a"), VariableExpr("s")>>))>>, FALSE)

\* (the empty program)
P_empty ==
    Block(<<>>, FALSE)

\* let x = 1
P_let ==
    Block(<<VarDeclareStmt("x", Number(IntV(1)), FALSE)>>, FALSE)

\* const x = 1; return x
P_const ==
    Block(<<VarDeclareStmt("x", Number(IntV(1)), TRUE), ReturnStmt(VariableExpr("x"))>>, FALSE)

\* let x = 1; x = 2; return x
P_assign ==
    Block(<<VarDeclareStmt("x", Number(IntV(1)), FALSE), AssignStmt("x", Number(IntV(2))), ReturnStmt(VariableExpr("x"))>>, FALSE)

\* 1 + 2
P_expr ==
    Block(<<BinaryOp(Number(IntV(1)), "PLUS", Number(IntV(2)))>>, FALSE)

\* let a = [1, 2]; a[0] = 5
P_index_assign ==
    Block(<<VarDeclareStmt("a", ArrayLiteral(<<Number(IntV(1)), Number(IntV(2))>>), FALSE), AssignIndexStmt(VariableExpr("a"), Number(IntV(0)), Number(IntV(5)))>>, FALSE)

\* 1:5
P_range_stmt ==
    Block(<<RangeSpecifier(Number(IntV(1)), Number(IntV(5)), NoNode)>>, FALSE)

\* true or false
P_or_stmt ==
    Block(<<LogicalOp(Boolean(TRUE), "or", Boolean(FALSE))>>, FALSE)

\* true and false
P_and_stmt ==
    Block(<<LogicalOp(Boolean(TRUE), "and", Boolean(FALSE))>>, FALSE)

\* let x = 1; if x < 2 { x = 5 } return x
P_if ==
    Block(<<VarDeclareStmt("x", Number(IntV(1)), FALSE), IfStmt(ComparisonOp(VariableExpr("x"), "LT", Number(IntV(2))), Block(<<AssignStmt("x", Number(IntV(5)))>>, TRUE), NoNode), ReturnStmt(VariableExpr("x"))>>, FALSE)

\* let x = 3; if x < 2 { x = 5 } else { x = 6 } return x
P_if_else ==
    Block(<<VarDeclareStmt("x", Number(IntV(3)), FALSE), IfStmt(ComparisonOp(VariableExpr("x"), "LT", Number(IntV(2))), Block(<<AssignStmt("x", Number(IntV(5)))>>, TRUE), Block(<<AssignStmt("x", Number(IntV(6)))>>, TRUE)), ReturnStmt(VariableExpr("x"))>>, FALSE)

\* let x = 3; if x < 2 { x = 5 } else if x < 4 { x = 7 } else { x = 8 } return x
P_else_if ==
    Block(<<VarDeclareStmt("x", Number(IntV(3)), FALSE), IfStmt(ComparisonOp(VariableExpr("x"), "LT", Number(IntV(2))), Block(<<AssignStmt("x", Number(IntV(5)))>>, TRUE), Block(<<IfStmt(ComparisonOp(VariableExpr("x"), "LT", Number(IntV(4))), Block(<<AssignStmt("x", Number(IntV(7)))>>, TRUE), Block(<<AssignStmt("x", Number(IntV(8)))>>, TRUE))>>, TRUE)), ReturnStmt(VariableExpr("x"))>>, FALSE)

\* let i = 0; while i < 2 { i = i + 1 } return i
P_while ==
    Block(<<VarDeclareStmt("i", Number(IntV(0)), FALSE), WhileStmt(ComparisonOp(VariableExpr("i"), "LT", Number(IntV(2))), Block(<<AssignStmt("i", BinaryOp(VariableExpr("i"), "PLUS", Number(IntV(1))))>>, TRUE)), ReturnStmt(VariableExpr("i"))>>, FALSE)

\* let s = 0; for v in [1, 2, 3] { s = s + v } return s
P_for_list ==
    Block(<<VarDeclareStmt("s", Number(IntV(0)), FALSE), ForInStmt("v", ArrayLiteral(<<Number(IntV(1)), Number(IntV(2)), Number(IntV(3))>>), Block(<<AssignStmt("s", BinaryOp(VariableExpr("s"), "PLUS", VariableExpr("v")))>>, TRUE)), ReturnStmt(VariableExpr("s"))>>, FALSE)

\* fn f(a) { return a }
P_fn_def ==
    Block(<<FunctionDefStmt("f", <<"a">>, Block(<<ReturnStmt(VariableExpr("a"))>>, TRUE))>>, FALSE)

\* { let y = 1; y }
P_block ==
    Block(<<Block(<<VarDeclareStmt("y", Number(IntV(1)), FALSE), VariableExpr("y")>>, TRUE)>>, FALSE)

\* return 5
P_return_5 ==
    Block(<<ReturnStmt(Number(IntV(5)))>>, FALSE)

\* return
P_return_none ==
    Block(<<ReturnStmt(NoNode)>>, FALSE)

\* let x = 1; { { return x } }
P_return_in_block ==
    Block(<<VarDeclareStmt("x", Number(IntV(1)), FALSE), Block(<<Block(<<ReturnStmt(VariableExpr("x"))>>, TRUE)>>, TRUE)>>, FALSE)

\* let i = 0; while true { break } return i
P_while_break ==
    Block(<<VarDeclareStmt("i", Number(IntV(0)), FALSE), WhileStmt(Boolean(TRUE), Block(<<BreakStmt>>, TRUE)), ReturnStmt(VariableExpr("i"))>>, FALSE)

\* let i = 0; while i < 3 { i = i + 1; continue } return i
P_while_continue ==
    Block(<<VarDeclareStmt("i", Number(IntV(0)), FALSE), WhileStmt(ComparisonOp(VariableExpr("i"), "LT", Number(IntV(3))), Block(<<AssignStmt("i", BinaryOp(VariableExpr("i"), "PLUS", Number(IntV(1)))), ContinueStmt>>, TRUE)), ReturnStmt(VariableExpr("i"))>>, FALSE)

\* let i = 0; let n = 0; while i < 3 { i = i + 1; if i == 2 { continue } n = n + 1 } return n
P_while_continue_if ==
    Block(<<VarDeclareStmt("i", Number(IntV(0)), FALSE), VarDeclareStmt("n", Number(IntV(0)), FALSE), WhileStmt(ComparisonOp(VariableExpr("i"), "LT", Number(IntV(3))), Block(<<AssignStmt("i", BinaryOp(VariableExpr("i"), "PLUS", Number(IntV(1)))), IfStmt(ComparisonOp(VariableExpr("i"), "EQ", Number(IntV(2))), Block(<<ContinueStmt>>, TRUE), NoNode), AssignStmt("n", BinaryOp(VariableExpr("n"), "PLUS", Number(IntV(1))))>>, TRUE)), ReturnStmt(VariableExpr("n"))>>, FALSE)

\* for i in [1, 2] { break }
P_for_break ==
    Block(<<ForInStmt("i", ArrayLiteral(<<Number(IntV(1)), Number(IntV(2))>>), Block(<<BreakStmt>>, TRUE))>>, FALSE)

\* let r = 0; for i in [1, 2, 3] { if i == 2 { break } r = i } return r
P_for_break_if ==
    Block(<<VarDeclareStmt("r", Number(IntV(0)), FALSE), ForInStmt("i", ArrayLiteral(<<Number(IntV(1)), Number(IntV(2)), Number(IntV(3))>>), Block(<<IfStmt(ComparisonOp(VariableExpr("i"), "EQ", Number(IntV(2))), Block(<<BreakStmt>>, TRUE), NoNode), AssignStmt("r", VariableExpr("i"))>>, TRUE)), ReturnStmt(VariableExpr("r"))>>, FALSE)

\* let r = 0; for i in 1:4 { if i == 2 { continue } r = r + i } return r
P_for_continue_if ==
    Block(<<VarDeclareStmt("r", Number(IntV(0)), FALSE), ForInStmt("i", RangeSpecifier(Number(IntV(1)), Number(IntV(4)), NoNode), Block(<<IfStmt(ComparisonOp(VariableExpr("i"), "EQ", Number(IntV(2))), Block(<<ContinueStmt>>, TRUE), NoNode), AssignStmt("r", BinaryOp(VariableExpr("r"), "PLUS", VariableExpr("i")))>>, TRUE)), ReturnStmt(VariableExpr("r"))>>, FALSE)

\* let n = 0; for i in 0:2 { let j = 0; while j < 2 { j = j + 1; if j == 1 { continue } n = n + 1 } } return n
P_nested_loops ==
    Block(<<VarDeclareStmt("n", Number(IntV(0)), FALSE), ForInStmt("i", RangeSpecifier(Number(IntV(0)), Number(IntV(2)), NoNode), Block(<<VarDeclareStmt("j", Number(IntV(0)), FALSE), WhileStmt(ComparisonOp(VariableExpr("j"), "LT", Number(IntV(2))), Block(<<AssignStmt("j", BinaryOp(VariableExpr("j"), "PLUS", Number(IntV(1)))), IfStmt(ComparisonOp(VariableExpr("j"), "EQ", Number(IntV(1))), Block(<<ContinueStmt>>, TRUE), NoNode), AssignStmt("n", BinaryOp(VariableExpr("n"), "PLUS", Number(IntV(1))))>>, TRUE))>>, TRUE)), ReturnStmt(VariableExpr("n"))>>, FALSE)

\* let n = 0; for i in 0:2 { for j in 0:3 { if j == 1 { break } n = n + 1 } } return n
P_nested_break ==
    Block(<<VarDeclareStmt("n", Number(IntV(0)), FALSE), ForInStmt("i", RangeSpecifier(Number(IntV(0)), Number(IntV(2)), NoNode), Block(<<ForInStmt("j", RangeSpecifier(Number(IntV(0)), Number(IntV(3)), NoNode), Block(<<IfStmt(ComparisonOp(VariableExpr("j"), "EQ", Number(IntV(1))), Block(<<BreakStmt>>, TRUE), NoNode), AssignStmt("n", BinaryOp(VariableExpr("n"), "PLUS", Number(IntV(1))))>>, TRUE))>>, TRUE)), ReturnStmt(VariableExpr("n"))>>, FALSE)

\* break
P_break_outside ==
    Block(<<BreakStmt>>, FALSE)

\* let x = 1; continue
P_continue_outside ==
    Block(<<VarDeclareStmt("x", Number(IntV(1)), FALSE), ContinueStmt>>, FALSE)

\* fn f() { break } f()
P_break_in_fn ==
    Block(<<FunctionDefStmt("f", <<>>, Block(<<BreakStmt>>, TRUE)), CallExpr(VariableExpr("f"), <<>>, <<>>)>>, FALSE)

\* fn add(a, b) { return a - b } return add(5, 3)
P_call ==
    Block(<<FunctionDefStmt("add", <<"a", "b">>, Block(<<ReturnStmt(BinaryOp(VariableExpr("a"), "MINUS", VariableExpr("b")))>>, TRUE)), ReturnStmt(CallExpr(VariableExpr("add"), <<Number(IntV(5)), Number(IntV(3))>>, <<>>))>>, FALSE)

\* fn f(a) { let b = a } return f(1)
P_call_implicit_return ==
    Block(<<FunctionDefStmt("f", <<"a">>, Block(<<VarDeclareStmt("b", VariableExpr("a"), FALSE)>>, TRUE)), ReturnStmt(CallExpr(VariableExpr("f"), <<Number(IntV(1))>>, <<>>))>>, FALSE)

\* fn f(a) { while true { if a == 1 { return 7 } } } return 1 + f(1)
P_call_nested_blocks ==
    Block(<<FunctionDefStmt("f", <<"a">>, Block(<<WhileStmt(Boolean(TRUE), Block(<<IfStmt(ComparisonOp(VariableExpr("a"), "EQ", Number(IntV(1))), Block(<<ReturnStmt(Number(IntV(7)))>>, TRUE), NoNode)>>, TRUE))>>, TRUE)), ReturnStmt(BinaryOp(Number(IntV(1)), "PLUS", CallExpr(VariableExpr("f"), <<Number(IntV(1))>>, <<>>)))>>, FALSE)

\* fn g(a) { return a + 1 } fn f(a) { return g(a) * 2 } return f(1)
P_call_in_call ==
    Block(<<FunctionDefStmt("g", <<"a">>, Block(<<ReturnStmt(BinaryOp(VariableExpr("a"), "PLUS", Number(IntV(1))))>>, TRUE)), FunctionDefStmt("f", <<"a">>, Block(<<ReturnStmt(BinaryOp(CallExpr(VariableExpr("g"), <<VariableExpr("a")>>, <<>>), "MUL", Number(IntV(2))))>>, TRUE)), ReturnStmt(CallExpr(VariableExpr("f"), <<Number(IntV(1))>>, <<>>))>>, FALSE)

\* let f = fn(a, b) { return a - b }; return f(5, 3)
P_fn_expr ==
    Block(<<VarDeclareStmt("f", FunctionExpr(<<"a", "b">>, Block(<<ReturnStmt(BinaryOp(VariableExpr("a"), "MINUS", VariableExpr("b")))>>, TRUE)), FALSE), ReturnStmt(CallExpr(VariableExpr("f"), <<Number(IntV(5)), Number(IntV(3))>>, <<>>))>>, FALSE)

\* fn f(a) { return a } f()
P_arity ==
    Block(<<FunctionDefStmt("f", <<"a">>, Block(<<ReturnStmt(VariableExpr("a"))>>, TRUE)), CallExpr(VariableExpr("f"), <<>>, <<>>)>>, FALSE)

\* fn f(a) { return a } f(1, 2)
P_arity_more ==
    Block(<<FunctionDefStmt("f", <<"a">>, Block(<<ReturnStmt(VariableExpr("a"))>>, TRUE)), CallExpr(VariableExpr("f"), <<Number(IntV(1)), Number(IntV(2))>>, <<>>)>>, FALSE)

\* let q = 1; q()
P_call_int ==
    Block(<<VarDeclareStmt("q", Number(IntV(1)), FALSE), CallExpr(VariableExpr("q"), <<>>, <<>>)>>, FALSE)

\* fn fact(n) { if n <= 1 { return 1 } return n * fact(n - 1) } return fact(3)
P_fact_3 ==
    Block(<<FunctionDefStmt("fact", <<"n">>, Block(<<IfStmt(ComparisonOp(VariableExpr("n"), "LTE", Number(IntV(1))), Block(<<ReturnStmt(Number(IntV(1)))>>, TRUE), NoNode), ReturnStmt(BinaryOp(VariableExpr("n"), "MUL", CallExpr(VariableExpr("fact"), <<BinaryOp(VariableExpr("n"), "MINUS", Number(IntV(1)))>>, <<>>)))>>, TRUE)), ReturnStmt(CallExpr(VariableExpr("fact"), <<Number(IntV(3))>>, <<>>))>>, FALSE)

\* fn f(a, b, c) { return [a, b, c] } return f(1, 2, 3)
P_args_order ==
    Block(<<FunctionDefStmt("f", <<"a", "b", "c">>, Block(<<ReturnStmt(ArrayLiteral(<<VariableExpr("a"), VariableExpr("b"), VariableExpr("c")>>))>>, TRUE)), ReturnStmt(CallExpr(VariableExpr("f"), <<Number(IntV(1)), Number(IntV(2)), Number(IntV(3))>>, <<>>))>>, FALSE)

\* fn f() { return y } fn g() { let y = 5; return f() } return g()
P_dynamic_read ==
    Block(<<FunctionDefStmt("f", <<>>, Block(<<ReturnStmt(VariableExpr("y"))>>, TRUE)), FunctionDefStmt("g", <<>>, Block(<<VarDeclareStmt("y", Number(IntV(5)), FALSE), ReturnStmt(CallExpr(VariableExpr("f"), <<>>, <<>>))>>, TRUE)), ReturnStmt(CallExpr(VariableExpr("g"), <<>>, <<>>))>>, FALSE)

\* fn f() { y = 9 } fn g() { let y = 5; f(); return y } return g()
P_dynamic_write ==
    Block(<<FunctionDefStmt("f", <<>>, Block(<<AssignStmt("y", Number(IntV(9)))>>, TRUE)), FunctionDefStmt("g", <<>>, Block(<<VarDeclareStmt("y", Number(IntV(5)), FALSE), CallExpr(VariableExpr("f"), <<>>, <<>>), ReturnStmt(VariableExpr("y"))>>, TRUE)), ReturnStmt(CallExpr(VariableExpr("g"), <<>>, <<>>))>>, FALSE)

\* fn f() { return y } let r = 0; { let y = 4; r = f() } return r
P_dynamic_block ==
    Block(<<FunctionDefStmt("f", <<>>, Block(<<ReturnStmt(VariableExpr("y"))>>, TRUE)), VarDeclareStmt("r", Number(IntV(0)), FALSE), Block(<<VarDeclareStmt("y", Number(IntV(4)), FALSE), AssignStmt("r", CallExpr(VariableExpr("f"), <<>>, <<>>))>>, TRUE), ReturnStmt(VariableExpr("r"))>>, FALSE)

\* let y = 1; fn f() { return y } return f()
P_lexical_read ==
    Block(<<VarDeclareStmt("y", Number(IntV(1)), FALSE), FunctionDefStmt("f", <<>>, Block(<<ReturnStmt(VariableExpr("y"))>>, TRUE)), ReturnStmt(CallExpr(VariableExpr("f"), <<>>, <<>>))>>, FALSE)

\* fn f() { return y } return f()
P_undefined ==
    Block(<<FunctionDefStmt("f", <<>>, Block(<<ReturnStmt(VariableExpr("y"))>>, TRUE)), ReturnStmt(CallExpr(VariableExpr("f"), <<>>, <<>>))>>, FALSE)

\* zz = 1
P_undefined_assign ==
    Block(<<AssignStmt("zz", Number(IntV(1)))>>, FALSE)

\* let x = 1; { const x = 2; { let x = 3 } } x = 4; return x
P_shadow ==
    Block(<<VarDeclareStmt("x", Number(IntV(1)), FALSE), Block(<<VarDeclareStmt("x", Number(IntV(2)), TRUE), Block(<<VarDeclareStmt("x", Number(IntV(3)), FALSE)>>, TRUE)>>, TRUE), AssignStmt("x", Number(IntV(4))), ReturnStmt(VariableExpr("x"))>>, FALSE)

\* const k = 7; { k = 8 }
P_const_outer ==
    Block(<<VarDeclareStmt("k", Number(IntV(7)), TRUE), Block(<<AssignStmt("k", Number(IntV(8)))>>, TRUE)>>, FALSE)

\* let len = 5; return len
P_builtin_name ==
    Block(<<VarDeclareStmt("len", Number(IntV(5)), FALSE), ReturnStmt(VariableExpr("len"))>>, FALSE)

\* fn f() { return 1 } fn g() { return f() } return g()
P_global_fn ==
    Block(<<FunctionDefStmt("f", <<>>, Block(<<ReturnStmt(Number(IntV(1)))>>, TRUE)), FunctionDefStmt("g", <<>>, Block(<<ReturnStmt(CallExpr(VariableExpr("f"), <<>>, <<>>))>>, TRUE)), ReturnStmt(CallExpr(VariableExpr("g"), <<>>, <<>>))>>, FALSE)

\* for x in [1] { fn f() { break } f() }
P_fn_break_for ==
    Block(<<ForInStmt("x", ArrayLiteral(<<Number(IntV(1))>>), Block(<<FunctionDefStmt("f", <<>>, Block(<<BreakStmt>>, TRUE)), CallExpr(VariableExpr("f"), <<>>, <<>>)>>, TRUE))>>, FALSE)

\* fn g() { for x in [1] { fn f() { break } f() } } g()
P_fn_break_for_in_fn ==
    Block(<<FunctionDefStmt("g", <<>>, Block(<<ForInStmt("x", ArrayLiteral(<<Number(IntV(1))>>), Block(<<FunctionDefStmt("f", <<>>, Block(<<BreakStmt>>, TRUE)), CallExpr(VariableExpr("f"), <<>>, <<>>)>>, TRUE))>>, TRUE)), CallExpr(VariableExpr("g"), <<>>, <<>>)>>, FALSE)

\* let i = 0; while i < 2 { i = i + 1; fn f() { continue } f() }
P_fn_continue_while ==
    Block(<<VarDeclareStmt("i", Number(IntV(0)), FALSE), WhileStmt(ComparisonOp(VariableExpr("i"), "LT", Number(IntV(2))), Block(<<AssignStmt("i", BinaryOp(VariableExpr("i"), "PLUS", Number(IntV(1)))), FunctionDefStmt("f", <<>>, Block(<<ContinueStmt>>, TRUE)), CallExpr(VariableExpr("f"), <<>>, <<>>)>>, TRUE))>>, FALSE)

\* let i = 0; while i < 2 { i = i + 1; fn f() { break } f() }
P_fn_break_while ==
    Block(<<VarDeclareStmt("i", Number(IntV(0)), FALSE), WhileStmt(ComparisonOp(VariableExpr("i"), "LT", Number(IntV(2))), Block(<<AssignStmt("i", BinaryOp(VariableExpr("i"), "PLUS", Number(IntV(1)))), FunctionDefStmt("f", <<>>, Block(<<BreakStmt>>, TRUE)), CallExpr(VariableExpr("f"), <<>>, <<>>)>>, TRUE))>>, FALSE)

\* let n = 0; for x in [1, 2] { fn f(a) { return a + 1 } n = n + f(x) } return n
P_fn_in_loop ==
    Block(<<VarDeclareStmt("n", Number(IntV(0)), FALSE), ForInStmt("x", ArrayLiteral(<<Number(IntV(1)), Number(IntV(2))>>), Block(<<FunctionDefStmt("f", <<"a">>, Block(<<ReturnStmt(BinaryOp(VariableExpr("a"), "PLUS", Number(IntV(1))))>>, TRUE)), AssignStmt("n", BinaryOp(VariableExpr("n"), "PLUS", CallExpr(VariableExpr("f"), <<VariableExpr("x")>>, <<>>)))>>, TRUE)), ReturnStmt(VariableExpr("n"))>>, FALSE)

\* let n = 0; fn t() { n = n + 1; return true } t() or t(); return n
P_or_count ==
    Block(<<VarDeclareStmt("n", Number(IntV(0)), FALSE), FunctionDefStmt("t", <<>>, Block(<<AssignStmt("n", BinaryOp(VariableExpr("n"), "PLUS", Number(IntV(1)))), ReturnStmt(Boolean(TRUE))>>, TRUE)), LogicalOp(CallExpr(VariableExpr("t"), <<>>, <<>>), "or", CallExpr(VariableExpr("t"), <<>>, <<>>)), ReturnStmt(VariableExpr("n"))>>, FALSE)

\* let n = 0; fn t() { n = n + 1; return true } t() and t(); return n
P_and_count ==
    Block(<<VarDeclareStmt("n", Number(IntV(0)), FALSE), FunctionDefStmt("t", <<>>, Block(<<AssignStmt("n", BinaryOp(VariableExpr("n"), "PLUS", Number(IntV(1)))), ReturnStmt(Boolean(TRUE))>>, TRUE)), LogicalOp(CallExpr(VariableExpr("t"), <<>>, <<>>), "and", CallExpr(VariableExpr("t"), <<>>, <<>>)), ReturnStmt(VariableExpr("n"))>>, FALSE)

\* return 0 or 2
P_or_value ==
    Block(<<ReturnStmt(LogicalOp(Number(IntV(0)), "or", Number(IntV(2))))>>, FALSE)

\* return 0 and 2
P_and_value ==
    Block(<<ReturnStmt(LogicalOp(Number(IntV(0)), "and", Number(IntV(2))))>>, FALSE)

\* let b = false or true; return b
P_or_let ==
    Block(<<VarDeclareStmt("b", LogicalOp(Boolean(FALSE), "or", Boolean(TRUE)), FALSE), ReturnStmt(VariableExpr("b"))>>, FALSE)

\* return not true
P_not ==
    Block(<<ReturnStmt(UnaryOp("not", Boolean(TRUE)))>>, FALSE)

\* return not ""
P_not_str ==
    Block(<<ReturnStmt(UnaryOp("not", String("")))>>, FALSE)

\* return -5
P_neg ==
    Block(<<ReturnStmt(UnaryOp("MINUS", Number(IntV(5))))>>, FALSE)

\* return -"a"
P_neg_str ==
    Block(<<ReturnStmt(UnaryOp("MINUS", String("a")))>>, FALSE)

\* return 7 / 2
P_div ==
    Block(<<ReturnStmt(BinaryOp(Number(IntV(7)), "DIV", Number(IntV(2))))>>, FALSE)

\* return 7 / 0
P_div_zero ==
    Block(<<ReturnStmt(BinaryOp(Number(IntV(7)), "DIV", Number(IntV(0))))>>, FALSE)

\* return 7 % 3
P_mod ==
    Block(<<ReturnStmt(BinaryOp(Number(IntV(7)), "MOD", Number(IntV(3))))>>, FALSE)

\* return (0 - 7) % 3
P_mod_neg ==
    Block(<<ReturnStmt(BinaryOp(BinaryOp(Number(IntV(0)), "MINUS", Number(IntV(7))), "MOD", Number(IntV(3))))>>, FALSE)

\* return 7 % 0
P_mod_zero ==
    Block(<<ReturnStmt(BinaryOp(Number(IntV(7)), "MOD", Number(IntV(0))))>>, FALSE)

\* return 1.5 + 1
P_float ==
    Block(<<ReturnStmt(BinaryOp(Number(FloatV(3, 2)), "PLUS", Number(IntV(1))))>>, FALSE)

\* let a = 1; let b = 1.0; return b
P_int_float_const ==
    Block(<<VarDeclareStmt("a", Number(IntV(1)), FALSE), VarDeclareStmt("b", Number(FloatV(1, 1)), FALSE), ReturnStmt(VariableExpr("b"))>>, FALSE)

\* return "x" + "y"
P_str_concat ==
    Block(<<ReturnStmt(BinaryOp(String("x"), "PLUS", String("y")))>>, FALSE)

\* return "x" + 1
P_str_int ==
    Block(<<ReturnStmt(BinaryOp(String("x"), "PLUS", Number(IntV(1))))>>, FALSE)

\* return [1] + [2]
P_list_concat ==
    Block(<<ReturnStmt(BinaryOp(ArrayLiteral(<<Number(IntV(1))>>), "PLUS", ArrayLiteral(<<Number(IntV(2))>>)))>>, FALSE)

\* return "ab" * 2
P_str_mul ==
    Block(<<ReturnStmt(BinaryOp(String("ab"), "MUL", Number(IntV(2))))>>, FALSE)

\* return [1, 2] == [1, 2]
P_eq ==
    Block(<<ReturnStmt(ComparisonOp(ArrayLiteral(<<Number(IntV(1)), Number(IntV(2))>>), "EQ", ArrayLiteral(<<Number(IntV(1)), Number(IntV(2))>>)))>>, FALSE)

\* return 1 != 1.0
P_neq ==
    Block(<<ReturnStmt(ComparisonOp(Number(IntV(1)), "NEQ", Number(FloatV(1, 1))))>>, FALSE)

\* return [1 < 2, 2 <= 1, 2 > 1, 1 >= 2, "a" < "b"]
P_cmp ==
    Block(<<ReturnStmt(ArrayLiteral(<<ComparisonOp(Number(IntV(1)), "LT", Number(IntV(2))), ComparisonOp(Number(IntV(2)), "LTE", Number(IntV(1))), ComparisonOp(Number(IntV(2)), "GT", Number(IntV(1))), ComparisonOp(Number(IntV(1)), "GTE", Number(IntV(2))), ComparisonOp(String("a"), "LT", String("b"))>>))>>, FALSE)

\* "a" - 1
P_sub_str ==
    Block(<<BinaryOp(String("a"), "MINUS", Number(IntV(1)))>>, FALSE)

\* 1 < "a"
P_lt_str ==
    Block(<<ComparisonOp(Number(IntV(1)), "LT", String("a"))>>, FALSE)

\* let s = 0; for i in 0:10:3 { s = s + i } return s
P_range_step ==
    Block(<<VarDeclareStmt("s", Number(IntV(0)), FALSE), ForInStmt("i", RangeSpecifier(Number(IntV(0)), Number(IntV(10)), Number(IntV(3))), Block(<<AssignStmt("s", BinaryOp(VariableExpr("s"), "PLUS", VariableExpr("i")))>>, TRUE)), ReturnStmt(VariableExpr("s"))>>, FALSE)

\* let s = 0; for i in 5:1:-2 { s = s + i } return s
P_range_neg ==
    Block(<<VarDeclareStmt("s", Number(IntV(0)), FALSE), ForInStmt("i", RangeSpecifier(Number(IntV(5)), Number(IntV(1)), UnaryOp("MINUS", Number(IntV(2)))), Block(<<AssignStmt("s", BinaryOp(VariableExpr("s"), "PLUS", VariableExpr("i")))>>, TRUE)), ReturnStmt(VariableExpr("s"))>>, FALSE)

\* let s = 0; for i in 5:1 { s = s + 1 } return s
P_range_empty ==
    Block(<<VarDeclareStmt("s", Number(IntV(0)), FALSE), ForInStmt("i", RangeSpecifier(Number(IntV(5)), Number(IntV(1)), NoNode), Block(<<AssignStmt("s", BinaryOp(VariableExpr("s"), "PLUS", Number(IntV(1))))>>, TRUE)), ReturnStmt(VariableExpr("s"))>>, FALSE)

\* for i in 1:5:0 { }
P_range_zero ==
    Block(<<ForInStmt("i", RangeSpecifier(Number(IntV(1)), Number(IntV(5)), Number(IntV(0))), Block(<<>>, TRUE))>>, FALSE)

\* for i in 1:2.5 { }
P_range_float ==
    Block(<<ForInStmt("i", RangeSpecifier(Number(IntV(1)), Number(FloatV(5, 2)), NoNode), Block(<<>>, TRUE))>>, FALSE)

\* let s = ""; for c in "xy" { s = c + s } return s
P_for_str ==
    Block(<<VarDeclareStmt("s", String(""), FALSE), ForInStmt("c", String("xy"), Block(<<AssignStmt("s", BinaryOp(VariableExpr("c"), "PLUS", VariableExpr("s")))>>, TRUE)), ReturnStmt(VariableExpr("s"))>>, FALSE)

\* for i in 3 { }
P_for_int ==
    Block(<<ForInStmt("i", Number(IntV(3)), Block(<<>>, TRUE))>>, FALSE)

\* let s = 0; for v in [] { s = s + 1 } return s
P_for_empty ==
    Block(<<VarDeclareStmt("s", Number(IntV(0)), FALSE), ForInStmt("v", ArrayLiteral(<<>>), Block(<<AssignStmt("s", BinaryOp(VariableExpr("s"), "PLUS", Number(IntV(1))))>>, TRUE)), ReturnStmt(VariableExpr("s"))>>, FALSE)

\* let a = [1]; let n = 0; for v in a { if n < 2 { a.append(v) } n = n + 1 } return n
P_for_mutate ==
    Block(<<VarDeclareStmt("a", ArrayLiteral(<<Number(IntV(1))>>), FALSE), VarDeclareStmt("n", Number(IntV(0)), FALSE), ForInStmt("v", VariableExpr("a"), Block(<<IfStmt(ComparisonOp(VariableExpr("n"), "LT", Number(IntV(2))), Block(<<CallExpr(DotExpr(VariableExpr("a"), "append"), <<VariableExpr("v")>>, <<>>)>>, TRUE), NoNode), AssignStmt("n", BinaryOp(VariableExpr("n"), "PLUS", Number(IntV(1))))>>, TRUE)), ReturnStmt(VariableExpr("n"))>>, FALSE)

\* let a = [1, 2, 3]; return a[1] + a[-1]
P_index ==
    Block(<<VarDeclareStmt("a", ArrayLiteral(<<Number(IntV(1)), Number(IntV(2)), Number(IntV(3))>>), FALSE), ReturnStmt(BinaryOp(IndexExpr(VariableExpr("a"), Number(IntV(1))), "PLUS", IndexExpr(VariableExpr("a"), UnaryOp("MINUS", Number(IntV(1))))))>>, FALSE)

\* let a = [1, 2, 3]; return a[0:2]
P_index_range ==
    Block(<<VarDeclareStmt("a", ArrayLiteral(<<Number(IntV(1)), Number(IntV(2)), Number(IntV(3))>>), FALSE), ReturnStmt(IndexExpr(VariableExpr("a"), RangeSpecifier(Number(IntV(0)), Number(IntV(2)), NoNode)))>>, FALSE)

\* let a = [1, 2, 3]; return a[2:0:-1]
P_index_range_neg ==
    Block(<<VarDeclareStmt("a", ArrayLiteral(<<Number(IntV(1)), Number(IntV(2)), Number(IntV(3))>>), FALSE), ReturnStmt(IndexExpr(VariableExpr("a"), RangeSpecifier(Number(IntV(2)), Number(IntV(0)), UnaryOp("MINUS", Number(IntV(1))))))>>, FALSE)

\* let a = [1, 2, 3]; return a[0:2:0]
P_index_range_zero ==
    Block(<<VarDeclareStmt("a", ArrayLiteral(<<Number(IntV(1)), Number(IntV(2)), Number(IntV(3))>>), FALSE), ReturnStmt(IndexExpr(VariableExpr("a"), RangeSpecifier(Number(IntV(0)), Number(IntV(2)), Number(IntV(0)))))>>, FALSE)

\* let a = [1]; return a[5]
P_index_out ==
    Block(<<VarDeclareStmt("a", ArrayLiteral(<<Number(IntV(1))>>), FALSE), ReturnStmt(IndexExpr(VariableExpr("a"), Number(IntV(5))))>>, FALSE)

\* let q = 1; return q[0]
P_index_int ==
    Block(<<VarDeclareStmt("q", Number(IntV(1)), FALSE), ReturnStmt(IndexExpr(VariableExpr("q"), Number(IntV(0))))>>, FALSE)

\* return "xy"[1]
P_index_str ==
    Block(<<ReturnStmt(IndexExpr(String("xy"), Number(IntV(1))))>>, FALSE)

\* let a = [1]; a[3] = 1
P_index_set_out ==
    Block(<<VarDeclareStmt("a", ArrayLiteral(<<Number(IntV(1))>>), FALSE), AssignIndexStmt(VariableExpr("a"), Number(IntV(3)), Number(IntV(1)))>>, FALSE)

\* let s = "x"; s[0] = "y"
P_index_set_str ==
    Block(<<VarDeclareStmt("s", String("x"), FALSE), AssignIndexStmt(VariableExpr("s"), Number(IntV(0)), String("y"))>>, FALSE)

\* let a = [1, 2]; let b = a; b[0] = 9; return a
P_alias ==
    Block(<<VarDeclareStmt("a", ArrayLiteral(<<Number(IntV(1)), Number(IntV(2))>>), FALSE), VarDeclareStmt("b", VariableExpr("a"), FALSE), AssignIndexStmt(VariableExpr("b"), Number(IntV(0)), Number(IntV(9))), ReturnStmt(VariableExpr("a"))>>, FALSE)

\* let a = [[1], 2]; a[0][0] = 5; return a
P_list_nested ==
    Block(<<VarDeclareStmt("a", ArrayLiteral(<<ArrayLiteral(<<Number(IntV(1))>>), Number(IntV(2))>>), FALSE), AssignIndexStmt(IndexExpr(VariableExpr("a"), Number(IntV(0))), Number(IntV(0)), Number(IntV(5))), ReturnStmt(VariableExpr("a"))>>, FALSE)

\* let r = 1:5; return r.start + r.end + r.step
P_attr_range ==
    Block(<<VarDeclareStmt("r", RangeSpecifier(Number(IntV(1)), Number(IntV(5)), NoNode), FALSE), ReturnStmt(BinaryOp(BinaryOp(DotExpr(VariableExpr("r"), "start"), "PLUS", DotExpr(VariableExpr("r"), "end")), "PLUS", DotExpr(VariableExpr("r"), "step")))>>, FALSE)

\* return [len.name, len.arity]
P_attr_fn ==
    Block(<<ReturnStmt(ArrayLiteral(<<DotExpr(VariableExpr("len"), "name"), DotExpr(VariableExpr("len"), "arity")>>))>>, FALSE)

\* let q = 1; return q.nope
P_attr_none ==
    Block(<<VarDeclareStmt("q", Number(IntV(1)), FALSE), ReturnStmt(DotExpr(VariableExpr("q"), "nope"))>>, FALSE)

\* let a = [1]; a.append(2); return a
P_append ==
    Block(<<VarDeclareStmt("a", ArrayLiteral(<<Number(IntV(1))>>), FALSE), CallExpr(DotExpr(VariableExpr("a"), "append"), <<Number(IntV(2))>>, <<>>), ReturnStmt(VariableExpr("a"))>>, FALSE)

\* let a = [1]; a.append()
P_append_bad ==
    Block(<<VarDeclareStmt("a", ArrayLiteral(<<Number(IntV(1))>>), FALSE), CallExpr(DotExpr(VariableExpr("a"), "append"), <<>>, <<>>)>>, FALSE)

\* echo(1, "a")
P_echo ==
    Block(<<CallExpr(VariableExpr("echo"), <<Number(IntV(1)), String("a")>>, <<>>)>>, FALSE)

\* return echo()
P_echo_return ==
    Block(<<ReturnStmt(CallExpr(VariableExpr("echo"), <<>>, <<>>))>>, FALSE)

\* return len("xy") + len([1, 2, 3])
P_len ==
    Block(<<ReturnStmt(BinaryOp(CallExpr(VariableExpr("len"), <<String("xy")>>, <<>>), "PLUS", CallExpr(VariableExpr("len"), <<ArrayLiteral(<<Number(IntV(1)), Number(IntV(2)), Number(IntV(3))>>)>>, <<>>)))>>, FALSE)

\* return len(1)
P_len_int ==
    Block(<<ReturnStmt(CallExpr(VariableExpr("len"), <<Number(IntV(1))>>, <<>>))>>, FALSE)

\* return len()
P_len_arity ==
    Block(<<ReturnStmt(CallExpr(VariableExpr("len"), <<>>, <<>>))>>, FALSE)

\* return importpy("nope")
P_import ==
    Block(<<ReturnStmt(CallExpr(VariableExpr("importpy"), <<String("nope")>>, <<>>))>>, FALSE)

\* return get_attr(1:2, "end")
P_get_attr ==
    Block(<<ReturnStmt(CallExpr(VariableExpr("get_attr"), <<RangeSpecifier(Number(IntV(1)), Number(IntV(2)), NoNode), String("end")>>, <<>>))>>, FALSE)

\* return get_attr(1, 2)
P_get_attr_bad ==
    Block(<<ReturnStmt(CallExpr(VariableExpr("get_attr"), <<Number(IntV(1)), Number(IntV(2))>>, <<>>))>>, FALSE)

\* echo(1, sep=2)
P_kw_native ==
    Block(<<CallExpr(VariableExpr("echo"), <<Number(IntV(1))>>, <<KeywordArg("sep", Number(IntV(2)))>>)>>, FALSE)

\* fn f(a) { return a } f(a=1)
P_kw_user ==
    Block(<<FunctionDefStmt("f", <<"a">>, Block(<<ReturnStmt(VariableExpr("a"))>>, TRUE)), CallExpr(VariableExpr("f"), <<>>, <<KeywordArg("a", Number(IntV(1)))>>)>>, FALSE)

\* let l = [1]; l.append(1, x=1, x=2)
P_kw_method ==
    Block(<<VarDeclareStmt("l", ArrayLiteral(<<Number(IntV(1))>>), FALSE), CallExpr(DotExpr(VariableExpr("l"), "append"), <<Number(IntV(1))>>, <<KeywordArg("x", Number(IntV(1))), KeywordArg("x", Number(IntV(2)))>>)>>, FALSE)

\* let l = [2, 1, 3]; l.sort(reverse=true); return l
P_kw_sort_reverse ==
    Block(<<VarDeclareStmt("l", ArrayLiteral(<<Number(IntV(2)), Number(IntV(1)), Number(IntV(3))>>), FALSE), CallExpr(DotExpr(VariableExpr("l"), "sort"), <<>>, <<KeywordArg("reverse", Boolean(TRUE))>>), ReturnStmt(VariableExpr("l"))>>, FALSE)

\* let l = [2, 1]; return l.sort(reverse=false)
P_kw_sort_result ==
    Block(<<VarDeclareStmt("l", ArrayLiteral(<<Number(IntV(2)), Number(IntV(1))>>), FALSE), ReturnStmt(CallExpr(DotExpr(VariableExpr("l"), "sort"), <<>>, <<KeywordArg("reverse", Boolean(FALSE))>>))>>, FALSE)

\* let l = [true, 1, 0]; l.sort(reverse=1); return l
P_kw_sort_stable ==
    Block(<<VarDeclareStmt("l", ArrayLiteral(<<Boolean(TRUE), Number(IntV(1)), Number(IntV(0))>>), FALSE), CallExpr(DotExpr(VariableExpr("l"), "sort"), <<>>, <<KeywordArg("reverse", Number(IntV(1)))>>), ReturnStmt(VariableExpr("l"))>>, FALSE)

\* let l = ["b", "a", "ab"]; l.sort(reverse=0); return l
P_kw_sort_strings ==
    Block(<<VarDeclareStmt("l", ArrayLiteral(<<String("b"), String("a"), String("ab")>>), FALSE), CallExpr(DotExpr(VariableExpr("l"), "sort"), <<>>, <<KeywordArg("reverse", Number(IntV(0)))>>), ReturnStmt(VariableExpr("l"))>>, FALSE)

\* let l = [2, 1]; l.sort(reverse="a"); return l
P_kw_sort_bad_reverse ==
    Block(<<VarDeclareStmt("l", ArrayLiteral(<<Number(IntV(2)), Number(IntV(1))>>), FALSE), CallExpr(DotExpr(VariableExpr("l"), "sort"), <<>>, <<KeywordArg("reverse", String("a"))>>), ReturnStmt(VariableExpr("l"))>>, FALSE)

\* let l = [2, "a"]; l.sort(reverse=0); return l
P_kw_sort_mixed ==
    Block(<<VarDeclareStmt("l", ArrayLiteral(<<Number(IntV(2)), String("a")>>), FALSE), CallExpr(DotExpr(VariableExpr("l"), "sort"), <<>>, <<KeywordArg("reverse", Number(IntV(0)))>>), ReturnStmt(VariableExpr("l"))>>, FALSE)

\* let l = [2, 1]; l.sort(1, reverse=false); return l
P_kw_sort_positional ==
    Block(<<VarDeclareStmt("l", ArrayLiteral(<<Number(IntV(2)), Number(IntV(1))>>), FALSE), CallExpr(DotExpr(VariableExpr("l"), "sort"), <<Number(IntV(1))>>, <<KeywordArg("reverse", Boolean(FALSE))>>), ReturnStmt(VariableExpr("l"))>>, FALSE)

\* let l = [2, 1]; l.sort(x=false); return l
P_kw_sort_unknown ==
    Block(<<VarDeclareStmt("l", ArrayLiteral(<<Number(IntV(2)), Number(IntV(1))>>), FALSE), CallExpr(DotExpr(VariableExpr("l"), "sort"), <<>>, <<KeywordArg("x", Boolean(FALSE))>>), ReturnStmt(VariableExpr("l"))>>, FALSE)

\* let l = [3, 1]; l.sort(key=len); return l
P_kw_sort_key ==
    Block(<<VarDeclareStmt("l", ArrayLiteral(<<Number(IntV(3)), Number(IntV(1))>>), FALSE), CallExpr(DotExpr(VariableExpr("l"), "sort"), <<>>, <<KeywordArg("key", VariableExpr("len"))>>), ReturnStmt(VariableExpr("l"))>>, FALSE)

\* let l = []; l.sort(key=len); return l
P_kw_sort_key_empty ==
    Block(<<VarDeclareStmt("l", ArrayLiteral(<<>>), FALSE), CallExpr(DotExpr(VariableExpr("l"), "sort"), <<>>, <<KeywordArg("key", VariableExpr("len"))>>), ReturnStmt(VariableExpr("l"))>>, FALSE)

\* fn f(l) { l.sort(reverse=true) return l } return f([1, 2])
P_kw_sort_in_fn ==
    Block(<<FunctionDefStmt("f", <<"l">>, Block(<<CallExpr(DotExpr(VariableExpr("l"), "sort"), <<>>, <<KeywordArg("reverse", Boolean(TRUE))>>), ReturnStmt(VariableExpr("l"))>>, TRUE)), ReturnStmt(CallExpr(VariableExpr("f"), <<ArrayLiteral(<<Number(IntV(1)), Number(IntV(2))>>)>>, <<>>))>>, FALSE)

\* fn g(a) { return a } fn f() { return g(a=1) } return f()
P_kw_user_in_fn ==
    Block(<<FunctionDefStmt("g", <<"a">>, Block(<<ReturnStmt(VariableExpr("a"))>>, TRUE)), FunctionDefStmt("f", <<>>, Block(<<ReturnStmt(CallExpr(VariableExpr("g"), <<>>, <<KeywordArg("a", Number(IntV(1)))>>))>>, TRUE)), ReturnStmt(CallExpr(VariableExpr("f"), <<>>, <<>>))>>, FALSE)

\* return len(arg="ab")
P_kw_native_len ==
    Block(<<ReturnStmt(CallExpr(VariableExpr("len"), <<>>, <<KeywordArg("arg", String("ab"))>>))>>, FALSE)

\* fn f(a, b) { return a } return f(1, b=2)
P_kw_user_two ==
    Block(<<FunctionDefStmt("f", <<"a", "b">>, Block(<<ReturnStmt(VariableExpr("a"))>>, TRUE)), ReturnStmt(CallExpr(VariableExpr("f"), <<Number(IntV(1))>>, <<KeywordArg("b", Number(IntV(2)))>>))>>, FALSE)

\* let l = [2, 1, 3]; l.sort(); return l
P_sort ==
    Block(<<VarDeclareStmt("l", ArrayLiteral(<<Number(IntV(2)), Number(IntV(1)), Number(IntV(3))>>), FALSE), CallExpr(DotExpr(VariableExpr("l"), "sort"), <<>>, <<>>), ReturnStmt(VariableExpr("l"))>>, FALSE)

\* let l = [2, 1, 3]; l.sort(1); return l
P_sort_arg ==
    Block(<<VarDeclareStmt("l", ArrayLiteral(<<Number(IntV(2)), Number(IntV(1)), Number(IntV(3))>>), FALSE), CallExpr(DotExpr(VariableExpr("l"), "sort"), <<Number(IntV(1))>>, <<>>), ReturnStmt(VariableExpr("l"))>>, FALSE)

\* let x = 1; { let x = 2; x = 3 } return x
P_set_shadow ==
    Block(<<VarDeclareStmt("x", Number(IntV(1)), FALSE), Block(<<VarDeclareStmt("x", Number(IntV(2)), FALSE), AssignStmt("x", Number(IntV(3)))>>, TRUE), ReturnStmt(VariableExpr("x"))>>, FALSE)

\* let k = 1; { const k = 2; k = 3 }
P_set_const_shadow ==
    Block(<<VarDeclareStmt("k", Number(IntV(1)), FALSE), Block(<<VarDeclareStmt("k", Number(IntV(2)), TRUE), AssignStmt("k", Number(IntV(3)))>>, TRUE)>>, FALSE)

\* const k = 1; { let k = 2; k = 3; return k }
P_set_over_const ==
    Block(<<VarDeclareStmt("k", Number(IntV(1)), TRUE), Block(<<VarDeclareStmt("k", Number(IntV(2)), FALSE), AssignStmt("k", Number(IntV(3))), ReturnStmt(VariableExpr("k"))>>, TRUE)>>, FALSE)

\* let x = 1; { let x = 2; return x }
P_get_shadow ==
    Block(<<VarDeclareStmt("x", Number(IntV(1)), FALSE), Block(<<VarDeclareStmt("x", Number(IntV(2)), FALSE), ReturnStmt(VariableExpr("x"))>>, TRUE)>>, FALSE)

\* for x in [1, 2] { fn f() { continue } f() }
P_fn_continue_for ==
    Block(<<ForInStmt("x", ArrayLiteral(<<Number(IntV(1)), Number(IntV(2))>>), Block(<<FunctionDefStmt("f", <<>>, Block(<<ContinueStmt>>, TRUE)), CallExpr(VariableExpr("f"), <<>>, <<>>)>>, TRUE))>>, FALSE)

\* let r = []; for v in [3, 1, 2] { r.append(v) } return r
P_for_order ==
    Block(<<VarDeclareStmt("r", ArrayLiteral(<<>>), FALSE), ForInStmt("v", ArrayLiteral(<<Number(IntV(3)), Number(IntV(1)), Number(IntV(2))>>), Block(<<CallExpr(DotExpr(VariableExpr("r"), "append"), <<VariableExpr("v")>>, <<>>)>>, TRUE)), ReturnStmt(VariableExpr("r"))>>, FALSE)

\* let n = 0; for i in 3:4 { n = n + 1 } return n
P_range_one ==
    Block(<<VarDeclareStmt("n", Number(IntV(0)), FALSE), ForInStmt("i", RangeSpecifier(Number(IntV(3)), Number(IntV(4)), NoNode), Block(<<AssignStmt("n", BinaryOp(VariableExpr("n"), "PLUS", Number(IntV(1))))>>, TRUE)), ReturnStmt(VariableExpr("n"))>>, FALSE)

\* let r = 0; for i in 2:9:3 { r = i } return r
P_range_last ==
    Block(<<VarDeclareStmt("r", Number(IntV(0)), FALSE), ForInStmt("i", RangeSpecifier(Number(IntV(2)), Number(IntV(9)), Number(IntV(3))), Block(<<AssignStmt("r", VariableExpr("i"))>>, TRUE)), ReturnStmt(VariableExpr("r"))>>, FALSE)

\* let n = 0; for a in [1, 2] { for b in 0:3 { n = n + 1 } } return n
P_for_nested_count ==
    Block(<<VarDeclareStmt("n", Number(IntV(0)), FALSE), ForInStmt("a", ArrayLiteral(<<Number(IntV(1)), Number(IntV(2))>>), Block(<<ForInStmt("b", RangeSpecifier(Number(IntV(0)), Number(IntV(3)), NoNode), Block(<<AssignStmt("n", BinaryOp(VariableExpr("n"), "PLUS", Number(IntV(1))))>>, TRUE))>>, TRUE)), ReturnStmt(VariableExpr("n"))>>, FALSE)

\* for c in true { }
P_for_bool ==
    Block(<<ForInStmt("c", Boolean(TRUE), Block(<<>>, TRUE))>>, FALSE)

\* for c in echo() { }
P_for_none ==
    Block(<<ForInStmt("c", CallExpr(VariableExpr("echo"), <<>>, <<>>), Block(<<>>, TRUE))>>, FALSE)

\* for c in 1.5 { }
P_for_float ==
    Block(<<ForInStmt("c", Number(FloatV(3, 2)), Block(<<>>, TRUE))>>, FALSE)

\* for c in len { }
P_for_fn ==
    Block(<<ForInStmt("c", VariableExpr("len"), Block(<<>>, TRUE))>>, FALSE)

\* let n = 0; for c in "" { n = n + 1 } return n
P_for_str_empty ==
    Block(<<VarDeclareStmt("n", Number(IntV(0)), FALSE), ForInStmt("c", String(""), Block(<<AssignStmt("n", BinaryOp(VariableExpr("n"), "PLUS", Number(IntV(1))))>>, TRUE)), ReturnStmt(VariableExpr("n"))>>, FALSE)

\* let n = 0; for i in 0:2 { for j in 0:3 { if j == 1 { continue } n = n + 1 } } return n
P_nested_continue ==
    Block(<<VarDeclareStmt("n", Number(IntV(0)), FALSE), ForInStmt("i", RangeSpecifier(Number(IntV(0)), Number(IntV(2)), NoNode), Block(<<ForInStmt("j", RangeSpecifier(Number(IntV(0)), Number(IntV(3)), NoNode), Block(<<IfStmt(ComparisonOp(VariableExpr("j"), "EQ", Number(IntV(1))), Block(<<ContinueStmt>>, TRUE), NoNode), AssignStmt("n", BinaryOp(VariableExpr("n"), "PLUS", Number(IntV(1))))>>, TRUE))>>, TRUE)), ReturnStmt(VariableExpr("n"))>>, FALSE)

\* let n = 0; let i = 0; while i < 2 { i = i + 1; let j = 0; while j < 3 { j = j + 1; if j == 2 { break } n = n + 1 } } return n
P_nested_while_break ==
    Block(<<VarDeclareStmt("n", Number(IntV(0)), FALSE), VarDeclareStmt("i", Number(IntV(0)), FALSE), WhileStmt(ComparisonOp(VariableExpr("i"), "LT", Number(IntV(2))), Block(<<AssignStmt("i", BinaryOp(VariableExpr("i"), "PLUS", Number(IntV(1)))), VarDeclareStmt("j", Number(IntV(0)), FALSE), WhileStmt(ComparisonOp(VariableExpr("j"), "LT", Number(IntV(3))), Block(<<AssignStmt("j", BinaryOp(VariableExpr("j"), "PLUS", Number(IntV(1)))), IfStmt(ComparisonOp(VariableExpr("j"), "EQ", Number(IntV(2))), Block(<<BreakStmt>>, TRUE), NoNode), AssignStmt("n", BinaryOp(VariableExpr("n"), "PLUS", Number(IntV(1))))>>, TRUE))>>, TRUE)), ReturnStmt(VariableExpr("n"))>>, FALSE)

\* let n = 0; for i in 0:3 { for j in 0:2 { n = n + 1 } if i == 1 { break } } return n
P_break_after_inner ==
    Block(<<VarDeclareStmt("n", Number(IntV(0)), FALSE), ForInStmt("i", RangeSpecifier(Number(IntV(0)), Number(IntV(3)), NoNode), Block(<<ForInStmt("j", RangeSpecifier(Number(IntV(0)), Number(IntV(2)), NoNode), Block(<<AssignStmt("n", BinaryOp(VariableExpr("n"), "PLUS", Number(IntV(1))))>>, TRUE)), IfStmt(ComparisonOp(VariableExpr("i"), "EQ", Number(IntV(1))), Block(<<BreakStmt>>, TRUE), NoNode)>>, TRUE)), ReturnStmt(VariableExpr("n"))>>, FALSE)

\* let n = 0; let i = 0; while i < 3 { i = i + 1; for j in 0:2 { } if i == 2 { continue } n = n + 1 } return n
P_continue_after_inner ==
    Block(<<VarDeclareStmt("n", Number(IntV(0)), FALSE), VarDeclareStmt("i", Number(IntV(0)), FALSE), WhileStmt(ComparisonOp(VariableExpr("i"), "LT", Number(IntV(3))), Block(<<AssignStmt("i", BinaryOp(VariableExpr("i"), "PLUS", Number(IntV(1)))), ForInStmt("j", RangeSpecifier(Number(IntV(0)), Number(IntV(2)), NoNode), Block(<<>>, TRUE)), IfStmt(ComparisonOp(VariableExpr("i"), "EQ", Number(IntV(2))), Block(<<ContinueStmt>>, TRUE), NoNode), AssignStmt("n", BinaryOp(VariableExpr("n"), "PLUS", Number(IntV(1))))>>, TRUE)), ReturnStmt(VariableExpr("n"))>>, FALSE)

\* if true { continue }
P_continue_in_if ==
    Block(<<IfStmt(Boolean(TRUE), Block(<<ContinueStmt>>, TRUE), NoNode)>>, FALSE)

\* while false { } break
P_break_after_loop ==
    Block(<<WhileStmt(Boolean(FALSE), Block(<<>>, TRUE)), BreakStmt>>, FALSE)

\* return 7 / 0.0
P_div_float_zero ==
    Block(<<ReturnStmt(BinaryOp(Number(IntV(7)), "DIV", Number(FloatV(0, 1))))>>, FALSE)

\* return 7.5 % 0.0
P_mod_float_zero ==
    Block(<<ReturnStmt(BinaryOp(Number(FloatV(15, 2)), "MOD", Number(FloatV(0, 1))))>>, FALSE)

\* return 0 / 0
P_div_zero_zero ==
    Block(<<ReturnStmt(BinaryOp(Number(IntV(0)), "DIV", Number(IntV(0))))>>, FALSE)

\* return (0 - 3) % 0
P_mod_neg_zero ==
    Block(<<ReturnStmt(BinaryOp(BinaryOp(Number(IntV(0)), "MINUS", Number(IntV(3))), "MOD", Number(IntV(0))))>>, FALSE)

\* fn f(a) { return len(a) } return f([1, 2])
P_native_in_fn ==
    Block(<<FunctionDefStmt("f", <<"a">>, Block(<<ReturnStmt(CallExpr(VariableExpr("len"), <<VariableExpr("a")>>, <<>>))>>, TRUE)), ReturnStmt(CallExpr(VariableExpr("f"), <<ArrayLiteral(<<Number(IntV(1)), Number(IntV(2))>>)>>, <<>>))>>, FALSE)

\* { { return len("ab") } }
P_native_nested ==
    Block(<<Block(<<Block(<<ReturnStmt(CallExpr(VariableExpr("len"), <<String("ab")>>, <<>>))>>, TRUE)>>, TRUE)>>, FALSE)

\* len = 5
P_native_assign ==
    Block(<<AssignStmt("len", Number(IntV(5)))>>, FALSE)

\* fn len(a) { return 7 } return len([1, 2])
P_native_fn_def ==
    Block(<<FunctionDefStmt("len", <<"a">>, Block(<<ReturnStmt(Number(IntV(7)))>>, TRUE)), ReturnStmt(CallExpr(VariableExpr("len"), <<ArrayLiteral(<<Number(IntV(1)), Number(IntV(2))>>)>>, <<>>))>>, FALSE)

\* fn f() { let len = 3; return len } return f()
P_native_let_in_fn ==
    Block(<<FunctionDefStmt("f", <<>>, Block(<<VarDeclareStmt("len", Number(IntV(3)), FALSE), ReturnStmt(VariableExpr("len"))>>, TRUE)), ReturnStmt(CallExpr(VariableExpr("f"), <<>>, <<>>))>>, FALSE)

\* fn fib(n) { if n < 2 { return n } return fib(n - 1) + fib(n - 2) } return fib(4)
P_rec_fib ==
    Block(<<FunctionDefStmt("fib", <<"n">>, Block(<<IfStmt(ComparisonOp(VariableExpr("n"), "LT", Number(IntV(2))), Block(<<ReturnStmt(VariableExpr("n"))>>, TRUE), NoNode), ReturnStmt(BinaryOp(CallExpr(VariableExpr("fib"), <<BinaryOp(VariableExpr("n"), "MINUS", Number(IntV(1)))>>, <<>>), "PLUS", CallExpr(VariableExpr("fib"), <<BinaryOp(VariableExpr("n"), "MINUS", Number(IntV(2)))>>, <<>>)))>>, TRUE)), ReturnStmt(CallExpr(VariableExpr("fib"), <<Number(IntV(4))>>, <<>>))>>, FALSE)

\* fn down(n) { if n > 0 { down(n - 1) } n = n + 10; return n } return down(2)
P_rec_assign ==
    Block(<<FunctionDefStmt("down", <<"n">>, Block(<<IfStmt(ComparisonOp(VariableExpr("n"), "GT", Number(IntV(0))), Block(<<CallExpr(VariableExpr("down"), <<BinaryOp(VariableExpr("n"), "MINUS", Number(IntV(1)))>>, <<>>)>>, TRUE), NoNode), AssignStmt("n", BinaryOp(VariableExpr("n"), "PLUS", Number(IntV(10)))), ReturnStmt(VariableExpr("n"))>>, TRUE)), ReturnStmt(CallExpr(VariableExpr("down"), <<Number(IntV(2))>>, <<>>))>>, FALSE)

\* fn s(n) { if n == 0 { return 0 } return n + s(n - 1) + n } return s(3)
P_rec_operands ==
    Block(<<FunctionDefStmt("s", <<"n">>, Block(<<IfStmt(ComparisonOp(VariableExpr("n"), "EQ", Number(IntV(0))), Block(<<ReturnStmt(Number(IntV(0)))>>, TRUE), NoNode), ReturnStmt(BinaryOp(BinaryOp(VariableExpr("n"), "PLUS", CallExpr(VariableExpr("s"), <<BinaryOp(VariableExpr("n"), "MINUS", Number(IntV(1)))>>, <<>>)), "PLUS", VariableExpr("n")))>>, TRUE)), ReturnStmt(CallExpr(VariableExpr("s"), <<Number(IntV(3))>>, <<>>))>>, FALSE)

\* fn f(a, b) { if a == 0 { return b } let r = f(a - 1, b + a); return [a, b, r] } return f(2, 0)
P_rec_two_params ==
    Block(<<FunctionDefStmt("f", <<"a", "b">>, Block(<<IfStmt(ComparisonOp(VariableExpr("a"), "EQ", Number(IntV(0))), Block(<<ReturnStmt(VariableExpr("b"))>>, TRUE), NoNode), VarDeclareStmt("r", CallExpr(VariableExpr("f"), <<BinaryOp(VariableExpr("a"), "MINUS", Number(IntV(1))), BinaryOp(VariableExpr("b"), "PLUS", VariableExpr("a"))>>, <<>>), FALSE), ReturnStmt(ArrayLiteral(<<VariableExpr("a"), VariableExpr("b"), VariableExpr("r")>>))>>, TRUE)), ReturnStmt(CallExpr(VariableExpr("f"), <<Number(IntV(2)), Number(IntV(0))>>, <<>>))>>, FALSE)

\* let a = [1, 2, 3]; a[-1] = 10; return a
P_index_set_neg ==
    Block(<<VarDeclareStmt("a", ArrayLiteral(<<Number(IntV(1)), Number(IntV(2)), Number(IntV(3))>>), FALSE), AssignIndexStmt(VariableExpr("a"), UnaryOp("MINUS", Number(IntV(1))), Number(IntV(10))), ReturnStmt(VariableExpr("a"))>>, FALSE)

\* let a = [1, 2]; a[-3] = 1
P_index_set_neg_out ==
    Block(<<VarDeclareStmt("a", ArrayLiteral(<<Number(IntV(1)), Number(IntV(2))>>), FALSE), AssignIndexStmt(VariableExpr("a"), UnaryOp("MINUS", Number(IntV(3))), Number(IntV(1)))>>, FALSE)

\* let a = [1, 2]; a[2] = 5
P_index_set_len ==
    Block(<<VarDeclareStmt("a", ArrayLiteral(<<Number(IntV(1)), Number(IntV(2))>>), FALSE), AssignIndexStmt(VariableExpr("a"), Number(IntV(2)), Number(IntV(5)))>>, FALSE)

\* let a = [1, 2]; a[true] = 5; return a
P_index_set_bool ==
    Block(<<VarDeclareStmt("a", ArrayLiteral(<<Number(IntV(1)), Number(IntV(2))>>), FALSE), AssignIndexStmt(VariableExpr("a"), Boolean(TRUE), Number(IntV(5))), ReturnStmt(VariableExpr("a"))>>, FALSE)

\* let a = [1, 2]; a[0.5] = 1
P_index_set_float ==
    Block(<<VarDeclareStmt("a", ArrayLiteral(<<Number(IntV(1)), Number(IntV(2))>>), FALSE), AssignIndexStmt(VariableExpr("a"), Number(FloatV(1, 2)), Number(IntV(1)))>>, FALSE)

\* let a = [1, 2]; let b = a; a[0] = [7]; return [a, b]
P_index_set_two ==
    Block(<<VarDeclareStmt("a", ArrayLiteral(<<Number(IntV(1)), Number(IntV(2))>>), FALSE), VarDeclareStmt("b", VariableExpr("a"), FALSE), AssignIndexStmt(VariableExpr("a"), Number(IntV(0)), ArrayLiteral(<<Number(IntV(7))>>)), ReturnStmt(ArrayLiteral(<<VariableExpr("a"), VariableExpr("b")>>))>>, FALSE)

\* let a = [1, 2]; for x in [1, 2] { a[0] = 5; break } return a
P_for_leak_break ==
    Block(<<VarDeclareStmt("a", ArrayLiteral(<<Number(IntV(1)), Number(IntV(2))>>), FALSE), ForInStmt("x", ArrayLiteral(<<Number(IntV(1)), Number(IntV(2))>>), Block(<<AssignIndexStmt(VariableExpr("a"), Number(IntV(0)), Number(IntV(5))), BreakStmt>>, TRUE)), ReturnStmt(VariableExpr("a"))>>, FALSE)

\* let a = [1, 2]; for x in [1, 2] { a[0] = 5 } return a
P_for_leak_exhaust ==
    Block(<<VarDeclareStmt("a", ArrayLiteral(<<Number(IntV(1)), Number(IntV(2))>>), FALSE), ForInStmt("x", ArrayLiteral(<<Number(IntV(1)), Number(IntV(2))>>), Block(<<AssignIndexStmt(VariableExpr("a"), Number(IntV(0)), Number(IntV(5)))>>, TRUE)), ReturnStmt(VariableExpr("a"))>>, FALSE)

\* let n = 0; for x in [1, 2] { true or false; continue } return n
P_for_leak_continue ==
    Block(<<VarDeclareStmt("n", Number(IntV(0)), FALSE), ForInStmt("x", ArrayLiteral(<<Number(IntV(1)), Number(IntV(2))>>), Block(<<LogicalOp(Boolean(TRUE), "or", Boolean(FALSE)), ContinueStmt>>, TRUE)), ReturnStmt(VariableExpr("n"))>>, FALSE)

\* fn g() { for x in [1, 2] { return x } } return g()
P_for_return ==
    Block(<<FunctionDefStmt("g", <<>>, Block(<<ForInStmt("x", ArrayLiteral(<<Number(IntV(1)), Number(IntV(2))>>), Block(<<ReturnStmt(VariableExpr("x"))>>, TRUE))>>, TRUE)), ReturnStmt(CallExpr(VariableExpr("g"), <<>>, <<>>))>>, FALSE)

\* fn f(echo) { return echo } return f(3)
P_native_param ==
    Block(<<FunctionDefStmt("f", <<"echo">>, Block(<<ReturnStmt(VariableExpr("echo"))>>, TRUE)), ReturnStmt(CallExpr(VariableExpr("f"), <<Number(IntV(3))>>, <<>>))>>, FALSE)

\* const scan = 1; return scan
P_native_const ==
    Block(<<VarDeclareStmt("scan", Number(IntV(1)), TRUE), ReturnStmt(VariableExpr("scan"))>>, FALSE)

\* const x = 1; let x = 2; return x
P_const_let_again ==
    Block(<<VarDeclareStmt("x", Number(IntV(1)), TRUE), VarDeclareStmt("x", Number(IntV(2)), FALSE), ReturnStmt(VariableExpr("x"))>>, FALSE)

\* const x = 1; const x = 2; x = 3
P_const_const_again ==
    Block(<<VarDeclareStmt("x", Number(IntV(1)), TRUE), VarDeclareStmt("x", Number(IntV(2)), TRUE), AssignStmt("x", Number(IntV(3)))>>, FALSE)

\* const x = 1; fn x() { } return x
P_const_fn_again ==
    Block(<<VarDeclareStmt("x", Number(IntV(1)), TRUE), FunctionDefStmt("x", <<>>, Block(<<>>, TRUE)), ReturnStmt(VariableExpr("x"))>>, FALSE)

\* fn f(a) { const a = 5; return a } return f(1)
P_const_param ==
    Block(<<FunctionDefStmt("f", <<"a">>, Block(<<VarDeclareStmt("a", Number(IntV(5)), TRUE), ReturnStmt(VariableExpr("a"))>>, TRUE)), ReturnStmt(CallExpr(VariableExpr("f"), <<Number(IntV(1))>>, <<>>))>>, FALSE)

\* return scan()
P_scan ==
    Block(<<ReturnStmt(CallExpr(VariableExpr("scan"), <<>>, <<>>))>>, FALSE)

\* return perf_counter()
P_perf ==
    Block(<<ReturnStmt(CallExpr(VariableExpr("perf_counter"), <<>>, <<>>))>>, FALSE)

Catalogue ==
    {P_S1, P_S1_return, P_S2, P_S2_return, P_S3, P_S4, P_S4_return, P_S5, P_S5_return,
     P_S6, P_S7, P_S7_return, P_empty, P_let, P_const, P_assign, P_expr, P_index_assign,
     P_range_stmt, P_or_stmt, P_and_stmt, P_if, P_if_else, P_else_if, P_while,
     P_for_list, P_fn_def, P_block, P_return_5, P_return_none, P_return_in_block,
     P_while_break, P_while_continue, P_while_continue_if, P_for_break, P_for_break_if,
     P_for_continue_if, P_nested_loops, P_nested_break, P_break_outside,
     P_continue_outside, P_break_in_fn, P_call, P_call_implicit_return,
     P_call_nested_blocks, P_call_in_call, P_fn_expr, P_arity, P_arity_more, P_call_int,
     P_fact_3, P_args_order, P_dynamic_read, P_dynamic_write, P_dynamic_block,
     P_lexical_read, P_undefined, P_undefined_assign, P_shadow, P_const_outer,
     P_builtin_name, P_global_fn, P_fn_break_for, P_fn_break_for_in_fn,
     P_fn_continue_while, P_fn_break_while, P_fn_in_loop, P_or_count, P_and_count,
     P_or_value, P_and_value, P_or_let, P_not, P_not_str, P_neg, P_neg_str, P_div,
     P_div_zero, P_mod, P_mod_neg, P_mod_zero, P_float, P_int_float_const, P_str_concat,
     P_str_int, P_list_concat, P_str_mul, P_eq, P_neq, P_cmp, P_sub_str, P_lt_str,
     P_range_step, P_range_neg, P_range_empty, P_range_zero, P_range_float, P_for_str,
     P_for_int, P_for_empty, P_for_mutate, P_index, P_index_range, P_index_range_neg,
     P_index_range_zero, P_index_out, P_index_int, P_index_str, P_index_set_out,
     P_index_set_str, P_alias, P_list_nested, P_attr_range, P_attr_fn, P_attr_none,
     P_append, P_append_bad, P_echo, P_echo_return, P_len, P_len_int, P_len_arity,
     P_import, P_get_attr, P_get_attr_bad, P_kw_native, P_kw_user, P_kw_method,
     P_kw_sort_reverse, P_kw_sort_result, P_kw_sort_stable, P_kw_sort_strings,
     P_kw_sort_bad_reverse, P_kw_sort_mixed, P_kw_sort_positional, P_kw_sort_unknown,
     P_kw_sort_key, P_kw_sort_key_empty, P_kw_sort_in_fn, P_kw_user_in_fn,
     P_kw_native_len, P_kw_user_two, P_sort, P_sort_arg, P_set_shadow,
     P_set_const_shadow, P_set_over_const, P_get_shadow, P_fn_continue_for, P_for_order,
     P_range_one, P_range_last, P_for_nested_count, P_for_bool, P_for_none, P_for_float,
     P_for_fn, P_for_str_empty, P_nested_continue, P_nested_while_break,
     P_break_after_inner, P_continue_after_inner, P_continue_in_if, P_break_after_loop,
     P_div_float_zero, P_mod_float_zero, P_div_zero_zero, P_mod_neg_zero, P_native_in_fn,
     P_native_nested, P_native_assign, P_native_fn_def, P_native_let_in_fn, P_rec_fib,
     P_rec_assign, P_rec_operands, P_rec_two_params, P_index_set_neg,
     P_index_set_neg_out, P_index_set_len, P_index_set_bool, P_index_set_float,
     P_index_set_two, P_for_leak_break, P_for_leak_exhaust, P_for_leak_continue,
     P_for_return, P_native_param, P_native_const, P_const_let_again,
     P_const_const_again, P_const_fn_again, P_const_param, P_scan, P_perf}
\* END CATALOGUE
\* one operand of each type of value: Int, Float, Bool, Str, List, Range,
\* PyleFunction and None (what echo() returns)
Operands ==
    {Number(IntV(1)), Number(IntV(0)), Number(FloatV(1, 2)), Boolean(TRUE), String("a"),
     String(""), ArrayLiteral(<<Number(IntV(1))>>),
     RangeSpecifier(Number(IntV(0)), Number(IntV(2)), NoNode), VariableExpr("len"),
     CallExpr(VariableExpr("echo"), <<>>, <<>>)}

\* return <left> <op> <right> for every operator of the language and every
\* pair of operands
OperatorPrograms ==
    {Block(<<ReturnStmt(BinaryOp(l, op, r))>>, FALSE) :
        l \in Operands, r \in Operands, op \in {"PLUS", "MINUS", "MUL", "DIV", "MOD"}}
    \cup {Block(<<ReturnStmt(ComparisonOp(l, op, r))>>, FALSE) :
        l \in Operands, r \in Operands, op \in {"EQ", "NEQ", "GT", "GTE", "LT", "LTE"}}
    \cup {Block(<<ReturnStmt(LogicalOp(l, op, r))>>, FALSE) :
        l \in Operands, r \in Operands, op \in {"and", "or"}}

Programs == Catalogue \cup OperatorPrograms

\* the instruction budget of one run
MaxSteps == 400

(***************************************************************************)
(* State: the Compiler object, the program it was given, and the fields    *)
(* of the PyleVM object; pc is where the driver (main.py) stands:          *)
(*   constructed -> compiled | compile_error -> running -> returned |      *)
(*   raised                                                                *)
(* result is what interpret returned, exception the host exception that    *)
(* left interpret, steps the number of instructions dispatched.            *)
(***************************************************************************)
VARIABLES pc, compiler, program, bytecode_chunk, constants, ip, stack, globals,
          environments, frames, heap, result, exception, steps

vars == <<pc, compiler, program, bytecode_chunk, constants, ip, stack, globals,
          environments, frames, heap, result, exception, steps>>

EmptyDict == [x \in {} |-> NoneV]
Put(d, key, v) == [x \in (DOMAIN d) \cup {key} |-> IF x = key THEN v ELSE d[x]]

\* store[var_name] = Variable(var_name, value, is_const)
_set_variable(store, var_name, value, is_const) ==
    Put(store, var_name, Variable(var_name, value, is_const))

_is_falsey(h, value) == ~Truthy(h, value)

Init ==
    /\ pc = "constructed"
    /\ compiler = _initialize_builtins(Compiler)
    /\ program = NoNode
    /\ bytecode_chunk = <<>>
    /\ constants = <<>>
    /\ ip = 0
    /\ stack = <<>>
    /\ globals = EmptyDict
    /\ environments = <<>>
    /\ frames = <<>>
    /\ heap = <<>>
    /\ result = Result(NoneV, NoneV)
    /\ exception = ""
    /\ steps = 0

\* main: compiler.compile(ast_root_node)
Compile ==
    /\ pc = "constructed"
    /\ \E p \in Programs :
          /\ program' = p
          /\ compiler' = compile(compiler, p)
    /\ pc' = IF compiler'.error = "" THEN "compiled" ELSE "compile_error"
    /\ UNCHANGED <<bytecode_chunk, constants, ip, stack, globals, environments, frames,
                   heap, result, exception, steps>>

\* PyleVM.interpret up to the call of _run
Interpret ==
    /\ pc = "compiled"
    /\ bytecode_chunk' = compiler.bytecode_chunk
    /\ constants' = compiler.constants
    /\ ip' = 0
    /\ stack' = <<>>
    /\ globals' = EmptyDict
    /\ environments' = <<>>
    /\ frames' = <<>>
    /\ pc' = "running"
    /\ UNCHANGED <<compiler, program, heap, result, exception, steps>>

(***************************************************************************)
(* PyleVM._run: one action per opcode.  The loop fetches the instruction   *)
(* at ip, increments ip and executes it.                                   *)
(***************************************************************************)
Fetch == bytecode_chunk[ip + 1]
operand == Fetch.operand

Dispatch(op) ==
    /\ pc = "running"
    /\ steps < MaxSteps
    /\ ip < Len(bytecode_chunk)
    /\ Fetch.opcode = op
    /\ steps' = steps + 1
    /\ UNCHANGED <<compiler, program, bytecode_chunk, constants>>

\* the instruction completes: the loop goes on at newip with newstack
Goes(newip, newstack) ==
    /\ ip' = newip
    /\ stack' = newstack
    /\ pc' = "running"
    /\ UNCHANGED <<result, exception>>

\* return Result.err(PyleRuntimeError(msg, current_token)); current_token is None
Fails(msg, newstack) ==
    /\ ip' = ip + 1
    /\ stack' = newstack
    /\ pc' = "returned"
    /\ result' = Result_err(PyleRuntimeError(msg, NoneV))
    /\ UNCHANGED exception

\* a host exception that no handler of _run catches
Throws(exc, newstack) ==
    /\ ip' = ip + 1
    /\ stack' = newstack
    /\ pc' = "raised"
    /\ exception' = exc
    /\ UNCHANGED result

Top(s) == s[Len(s)]
Drop(s, n) == SubSeq(s, 1, Len(s) - n)

OP_CONST ==
    /\ Dispatch("OP_CONST")
    /\ Goes(ip + 1, Append(stack, constants[operand + 1]))
    /\ UNCHANGED <<globals, environments, frames, heap>>

OP_DEF_GLOBAL ==
    /\ Dispatch("OP_DEF_GLOBAL")
    /\ LET var_name == constants[operand + 1].s
       IN  IF stack = <<>>
           THEN Fails("Stack underflow for OP_DEF_GLOBAL", stack) /\ UNCHANGED globals
           ELSE /\ Goes(ip + 1, Drop(stack, 1))
                /\ globals' = _set_variable(globals, var_name, Top(stack), FALSE)
    /\ UNCHANGED <<environments, frames, heap>>

OP_GET_GLOBAL ==
    /\ Dispatch("OP_GET_GLOBAL")
    /\ LET var_name == constants[operand + 1].s
       IN  IF var_name \notin DOMAIN globals
           THEN Fails("Undefined global variable", stack)
           ELSE Goes(ip + 1, Append(stack, globals[var_name].value))
    /\ UNCHANGED <<globals, environments, frames, heap>>

OP_ADD ==
    /\ Dispatch("OP_ADD")
    /\ IF Len(stack) < 2
       THEN Fails("Stack underflow for OP_ADD.", stack) /\ UNCHANGED heap
       ELSE LET right == stack[Len(stack)]
                left == stack[Len(stack) - 1]
                rest == Drop(stack, 2)
            IN  IF IsNum(left) /\ IsNum(right)
                THEN Goes(ip + 1, Append(rest, PyAddNum(heap, left, right).v)) /\ UNCHANGED heap
                ELSE IF left.t = "Str" /\ right.t = "Str"
                THEN Goes(ip + 1, Append(rest, StrV(left.s \o right.s))) /\ UNCHANGED heap
                ELSE IF left.t = "List" /\ right.t = "List"
                THEN LET r == NewList(heap[left.ref].items \o heap[right.ref].items, heap)
                     IN  Goes(ip + 1, Append(rest, r.v)) /\ heap' = r.h
                ELSE Fails("Unsupported operand types for +", rest) /\ UNCHANGED heap
    /\ UNCHANGED <<globals, environments, frames>>

\* right = pop; left = pop; push(F(left, right)) with no handler around F
BinaryHost(op, F(_, _, _), underflow) ==
    /\ Dispatch(op)
    /\ IF Len(stack) < 2
       THEN Fails(underflow, stack) /\ UNCHANGED heap
       ELSE LET right == stack[Len(stack)]
                left == stack[Len(stack) - 1]
                rest == Drop(stack, 2)
                r == F(heap, left, right)
            IN  IF r.exc # ""
                THEN Throws(r.exc, rest) /\ UNCHANGED heap
                ELSE Goes(ip + 1, Append(rest, r.v)) /\ heap' = r.h
    /\ UNCHANGED <<globals, environments, frames>>

OP_SUBTRACT == BinaryHost("OP_SUBTRACT", PySub, "Stack underflow for OP_SUBTRACT.")

OP_MULTIPLY == BinaryHost("OP_MULTIPLY", PyMul, "Stack underflow for OP_MULTIPLY.")

\* right == 0 is tested before the division is attempted
ByZeroOr(F(_, _, _), msg, h, left, right) ==
    IF PyEq(h, right, IntV(0)) THEN [exc |-> "", v |-> NoneV, h |-> h, err |-> msg]
    ELSE [exc |-> F(h, left, right).exc, v |-> F(h, left, right).v,
          h |-> F(h, left, right).h, err |-> ""]

DivisionHost(op, F(_, _, _), underflow, byzero) ==
    /\ Dispatch(op)
    /\ IF Len(stack) < 2
       THEN Fails(underflow, stack)
       ELSE LET right == stack[Len(stack)]
                left == stack[Len(stack) - 1]
                rest == Drop(stack, 2)
                r == ByZeroOr(F, byzero, heap, left, right)
            IN  IF r.err # "" THEN Fails(r.err, rest)
                ELSE IF r.exc # "" THEN Throws(r.exc, rest)
                ELSE Goes(ip + 1, Append(rest, r.v))
    /\ UNCHANGED <<globals, environments, frames, heap>>

\* left / right as the host evaluates it when right may be zero
PyTrueDivHost(h, a, b) ==
    IF IsNum(b) /\ NumN(b) = 0 THEN Exc("ZeroDivisionError", h) ELSE PyTrueDiv(h, a, b)

\* OP_DIVIDE without the test of right == 0
OP_DIVIDE_no_zero_test ==
    BinaryHost("OP_DIVIDE", PyTrueDivHost, "Stack underflow for OP_DIVIDE.")

OP_DIVIDE ==
    DivisionHost("OP_DIVIDE", PyTrueDiv, "Stack underflow for OP_DIVIDE.", "Division by zero.")

OP_MODULO ==
    DivisionHost("OP_MODULO", PyMod, "Stack underflow for OP_MODULO.", "Modulo by zero.")

OP_NEGATE ==
    /\ Dispatch("OP_NEGATE")
    /\ IF stack = <<>>
       THEN Fails("Stack underflow for OP_NEGATE.", stack)
       ELSE LET value == Top(stack)
            IN  IF IsNum(value)
                THEN Goes(ip + 1, Append(Drop(stack, 1),
                                         MkNum(-NumN(value), NumD(value), value.t = "Float")))
                ELSE Fails("Operand for '-' must be a number", Drop(stack, 1))
    /\ UNCHANGED <<globals, environments, frames, heap>>

OP_NOT ==
    /\ Dispatch("OP_NOT")
    /\ IF stack = <<>>
       THEN Fails("Stack underflow for OP_NOT.", stack)
       ELSE Goes(ip + 1, Append(Drop(stack, 1), BoolV(~Truthy(heap, Top(stack)))))
    /\ UNCHANGED <<globals, environments, frames, heap>>

PyEqual(h, a, b) == Ok(BoolV(PyEq(h, a, b)), h)
PyNotEqual(h, a, b) == Ok(BoolV(~PyEq(h, a, b)), h)
PyGreater(h, a, b) == PyOrd(h, ">", a, b)
PyGreaterEqual(h, a, b) == PyOrd(h, ">=", a, b)
PyLess(h, a, b) == PyOrd(h, "<", a, b)
PyLessEqual(h, a, b) == PyOrd(h, "<=", a, b)
\* left and right, left or right: the operand that decides the result
PyAnd(h, a, b) == Ok(IF Truthy(h, a) THEN b ELSE a, h)
PyOr(h, a, b) == Ok(IF Truthy(h, a) THEN a ELSE b, h)

OP_EQUAL == BinaryHost("OP_EQUAL", PyEqual, "Stack underflow for OP_EQUAL.")

OP_NOT_EQUAL == BinaryHost("OP_NOT_EQUAL", PyNotEqual, "Stack underflow for OP_NOT_EQUAL.")

OP_GREATER == BinaryHost("OP_GREATER", PyGreater, "Stack underflow for OP_GREATER.")

OP_GREATER_EQUAL ==
    BinaryHost("OP_GREATER_EQUAL", PyGreaterEqual, "Stack underflow for OP_GREATER_EQUAL.")

OP_LESS == BinaryHost("OP_LESS", PyLess, "Stack underflow for OP_LESS.")

OP_LESS_EQUAL == BinaryHost("OP_LESS_EQUAL", PyLessEqual, "Stack underflow for OP_LESS_EQUAL.")

OP_AND == BinaryHost("OP_AND", PyAnd, "Stack underflow for OP_AND.")

OP_OR == BinaryHost("OP_OR", PyOr, "Stack underflow for OP_OR.")

OP_TRUE ==
    /\ Dispatch("OP_TRUE")
    /\ Goes(ip + 1, Append(stack, BoolV(TRUE)))
    /\ UNCHANGED <<globals, environments, frames, heap>>

OP_FALSE ==
    /\ Dispatch("OP_FALSE")
    /\ Goes(ip + 1, Append(stack, BoolV(FALSE)))
    /\ UNCHANGED <<globals, environments, frames, heap>>

OP_BUILD_RANGE ==
    /\ Dispatch("OP_BUILD_RANGE")
    /\ IF Len(stack) < 3
       THEN Fails("Stack underflow for OP_BUILD_RANGE.", stack)
       ELSE LET step == stack[Len(stack)]
                end == stack[Len(stack) - 1]
                start == stack[Len(stack) - 2]
            IN  Goes(ip + 1, Append(Drop(stack, 3), Range(start, end, step)))
    /\ UNCHANGED <<globals, environments, frames, heap>>

OP_ITER_NEW ==
    /\ Dispatch("OP_ITER_NEW")
    /\ IF stack = <<>>
       THEN Fails("Stack underflow for OP_ITER_NEW.", stack) /\ UNCHANGED heap
       ELSE LET iterable == Top(stack)
                r == PyIter(heap, iterable)
            IN  IF r.exc = "TypeError"
                THEN Fails("Type is not iterable.", Drop(stack, 1)) /\ UNCHANGED heap
                ELSE IF r.exc # ""
                THEN Throws(r.exc, Drop(stack, 1)) /\ UNCHANGED heap
                ELSE Goes(ip + 1, Append(Drop(stack, 1), r.v)) /\ heap' = r.h
    /\ UNCHANGED <<globals, environments, frames>>

\* OP_ITER_NEXT_OR_JUMP that jumps without the self._pop() of line 207
OP_ITER_NEXT_OR_JUMP_no_pop ==
    /\ Dispatch("OP_ITER_NEXT_OR_JUMP")
    /\ IF stack = <<>>
       THEN Fails("Stack underflow for OP_ITER_NEXT_OR_JUMP.", stack) /\ UNCHANGED heap
       ELSE LET iterator == Top(stack)
                r == PyNext(heap, iterator)
            IN  IF r.exc = "StopIteration"
                THEN Goes(operand, stack) /\ heap' = r.h
                ELSE IF r.exc = "TypeError"
                THEN Fails("Cannot iterate non-iterator type", stack) /\ UNCHANGED heap
                ELSE Goes(ip + 1, Append(stack, r.v)) /\ heap' = r.h
    /\ UNCHANGED <<globals, environments, frames>>

OP_ITER_NEXT_OR_JUMP ==
    /\ Dispatch("OP_ITER_NEXT_OR_JUMP")
    /\ IF stack = <<>>
       THEN Fails("Stack underflow for OP_ITER_NEXT_OR_JUMP.", stack) /\ UNCHANGED heap
       ELSE LET iterator == Top(stack)
                r == PyNext(heap, iterator)
            IN  IF r.exc = "StopIteration"
                THEN Goes(operand, Drop(stack, 1)) /\ heap' = r.h
                ELSE IF r.exc = "TypeError"
                THEN Fails("Cannot iterate non-iterator type", stack) /\ UNCHANGED heap
                ELSE Goes(ip + 1, Append(stack, r.v)) /\ heap' = r.h
    /\ UNCHANGED <<globals, environments, frames>>

OP_BUILD_LIST ==
    /\ Dispatch("OP_BUILD_LIST")
    /\ LET num_elements == operand
       IN  IF Len(stack) < num_elements
           THEN Fails("Stack underflow for OP_BUILD_LIST", stack) /\ UNCHANGED heap
           ELSE LET elements == SubSeq(stack, Len(stack) - num_elements + 1, Len(stack))
                    r == NewList(elements, heap)
                IN  Goes(ip + 1, Append(Drop(stack, num_elements), r.v)) /\ heap' = r.h
    /\ UNCHANGED <<globals, environments, frames>>

OP_INDEX_GET ==
    /\ Dispatch("OP_INDEX_GET")
    /\ IF Len(stack) < 2
       THEN Fails("Stack underflow for OP_INDEX_GET.", stack) /\ UNCHANGED heap
       ELSE LET index == stack[Len(stack)]
                collection == stack[Len(stack) - 1]
                r == PyGetItem(heap, collection, index)
            IN  IF r.exc \in {"TypeError", "IndexError", "KeyError"}
                THEN Fails("Indexing error", Drop(stack, 2)) /\ UNCHANGED heap
                ELSE IF r.exc # ""
                THEN Throws(r.exc, Drop(stack, 2)) /\ UNCHANGED heap
                ELSE Goes(ip + 1, Append(Drop(stack, 2), r.v)) /\ heap' = r.h
    /\ UNCHANGED <<globals, environments, frames>>

OP_INDEX_SET ==
    /\ Dispatch("OP_INDEX_SET")
    /\ IF Len(stack) < 3
       THEN Fails("Stack underflow for OP_INDEX_SET.", stack) /\ UNCHANGED heap
       ELSE LET value == stack[Len(stack)]
                index == stack[Len(stack) - 1]
                collection == stack[Len(stack) - 2]
            IN  IF collection.t = "List"
                THEN LET r == PySetItem(heap, collection, index, value)
                     IN  IF r.exc # ""
                         THEN Fails("Index assignment error", Drop(stack, 3)) /\ UNCHANGED heap
                         ELSE Goes(ip + 1, Append(Drop(stack, 3), value)) /\ heap' = r.h
                ELSE Fails("Index assignment not supported on type", Drop(stack, 3))
                     /\ UNCHANGED heap
    /\ UNCHANGED <<globals, environments, frames>>

OP_GET_ATTR ==
    /\ Dispatch("OP_GET_ATTR")
    /\ IF stack = <<>>
       THEN Fails("Stack underflow for OP_GET_ATTR.", stack)
       ELSE LET obj == Top(stack)
                attr_name == constants[operand + 1].s
                r == PyGetAttr(heap, obj, attr_name)
            IN  IF r.exc # ""
                THEN Fails("Attribute error", Drop(stack, 1))
                ELSE Goes(ip + 1, Append(Drop(stack, 1), r.v))
    /\ UNCHANGED <<globals, environments, frames, heap>>

OP_ENTER_SCOPE ==
    /\ Dispatch("OP_ENTER_SCOPE")
    /\ Goes(ip + 1, stack)
    /\ environments' = Append(environments, EmptyDict)
    /\ UNCHANGED <<globals, frames, heap>>

OP_EXIT_SCOPE ==
    /\ Dispatch("OP_EXIT_SCOPE")
    /\ IF environments = <<>>
       THEN Fails("VM error: Attempted to exit scope when no local scope active.", stack)
            /\ UNCHANGED environments
       ELSE Goes(ip + 1, stack) /\ environments' = Drop(environments, 1)
    /\ UNCHANGED <<globals, frames, heap>>

\* a definition that writes the innermost environment that already has the
\* name, as an assignment does
DefLocal_existing(op, is_const) ==
    /\ Dispatch(op)
    /\ environments # <<>>
    /\ stack # <<>>
    /\ Goes(ip + 1, Drop(stack, 1))
    /\ LET var_name == constants[operand + 1].s
           found == {i \in 1..Len(environments) : var_name \in DOMAIN environments[i]}
           target == IF found = {} THEN Len(environments)
                     ELSE CHOOSE i \in found : \A j \in found : j <= i
       IN  environments' =
              [environments EXCEPT ![target] = _set_variable(@, var_name, Top(stack), is_const)]
    /\ UNCHANGED <<globals, frames, heap>>

\* OP_DEF_LOCAL and OP_DEF_CONST_LOCAL
DefLocal(op, is_const) ==
    /\ Dispatch(op)
    /\ IF environments = <<>>
       THEN Fails("VM error: No active local scope to define", stack) /\ UNCHANGED environments
       ELSE IF stack = <<>>
       THEN Fails("Stack underflow defining local", stack) /\ UNCHANGED environments
       ELSE /\ Goes(ip + 1, Drop(stack, 1))
            /\ environments' =
                 [environments EXCEPT ![Len(environments)] =
                     _set_variable(@, constants[operand + 1].s, Top(stack), is_const)]
    /\ UNCHANGED <<globals, frames, heap>>

OP_DEF_LOCAL == DefLocal("OP_DEF_LOCAL", FALSE)

OP_DEF_CONST_LOCAL == DefLocal("OP_DEF_CONST_LOCAL", TRUE)

\* the index of the innermost environment that has var_name, 0 when none has
Lookup(envs, var_name) ==
    IF \E i \in 1..Len(envs) : var_name \in DOMAIN envs[i]
    THEN CHOOSE i \in 1..Len(envs) :
            /\ var_name \in DOMAIN envs[i]
            /\ \A j \in (i + 1)..Len(envs) : var_name \notin DOMAIN envs[j]
    ELSE 0

\* OP_GET_LOCAL that looks the name up in the globals when no environment
\* has it
OP_GET_LOCAL_or_global ==
    /\ Dispatch("OP_GET_LOCAL")
    /\ LET var_name == constants[operand + 1].s
           i_env == Lookup(environments, var_name)
       IN  IF i_env # 0
           THEN Goes(ip + 1, Append(stack, environments[i_env][var_name].value))
           ELSE IF var_name \in DOMAIN globals
           THEN Goes(ip + 1, Append(stack, globals[var_name].value))
           ELSE Fails("Undefined local variable", stack)
    /\ UNCHANGED <<globals, environments, frames, heap>>

OP_GET_LOCAL ==
    /\ Dispatch("OP_GET_LOCAL")
    /\ LET var_name == constants[operand + 1].s
           i_env == Lookup(environments, var_name)
       IN  IF i_env = 0
           THEN Fails("Undefined local variable", stack)
           ELSE Goes(ip + 1, Append(stack, environments[i_env][var_name].value))
    /\ UNCHANGED <<globals, environments, frames, heap>>

\* OP_SET_LOCAL without the is_const test of line 301
OP_SET_LOCAL_no_const_test ==
    /\ Dispatch("OP_SET_LOCAL")
    /\ LET var_name == constants[operand + 1].s
           i == Lookup(environments, var_name)
       IN  IF stack = <<>>
           THEN Fails("Stack underflow setting local", stack) /\ UNCHANGED environments
           ELSE IF i = 0
           THEN Fails("Cannot assign to undefined local variable", Drop(stack, 1))
                /\ UNCHANGED environments
           ELSE /\ Goes(ip + 1, Drop(stack, 1))
                /\ environments' =
                     [environments EXCEPT ![i] = _set_variable(@, var_name, Top(stack), FALSE)]
    /\ UNCHANGED <<globals, frames, heap>>

OP_SET_LOCAL ==
    /\ Dispatch("OP_SET_LOCAL")
    /\ LET var_name == constants[operand + 1].s
           i == Lookup(environments, var_name)
       IN  IF stack = <<>>
           THEN Fails("Stack underflow setting local", stack) /\ UNCHANGED environments
           ELSE IF i = 0
           THEN Fails("Cannot assign to undefined local variable", Drop(stack, 1))
                /\ UNCHANGED environments
           ELSE IF environments[i][var_name].is_const
           THEN Fails("Cannot Assign const local variable", Drop(stack, 1))
                /\ UNCHANGED environments
           ELSE /\ Goes(ip + 1, Drop(stack, 1))
                /\ environments' =
                     [environments EXCEPT ![i] = _set_variable(@, var_name, Top(stack), FALSE)]
    /\ UNCHANGED <<globals, frames, heap>>

OP_JUMP_IF_FALSE ==
    /\ Dispatch("OP_JUMP_IF_FALSE")
    /\ IF stack = <<>>
       THEN Fails("Stack underflow for OP_JUMP_IF_FALSE.", stack)
       ELSE Goes(IF _is_falsey(heap, Top(stack)) THEN operand ELSE ip + 1, Drop(stack, 1))
    /\ UNCHANGED <<globals, environments, frames, heap>>

OP_JUMP ==
    /\ Dispatch("OP_JUMP")
    /\ Goes(operand, stack)
    /\ UNCHANGED <<globals, environments, frames, heap>>

OP_POP ==
    /\ Dispatch("OP_POP")
    /\ IF stack = <<>>
       THEN Fails("Stack underflow for OP_POP.", stack)
       ELSE Goes(ip + 1, Drop(stack, 1))
    /\ UNCHANGED <<globals, environments, frames, heap>>

\* isinstance(v, (MethodType, BuiltinFunctionType, FunctionType, type))
IsHostCallable(v) == v.t = "Method"

\* OP_CALL of a user function with the test of line 369 left out (the other
\* kinds of callee are not called)
OP_CALL_any_arity ==
    /\ Dispatch("OP_CALL")
    /\ Len(stack) >= operand + 1
    /\ LET callee_candidate_idx == Len(stack) - 1 - operand
           function_to_call == stack[callee_candidate_idx + 1]
       IN  /\ function_to_call.t = "Fn"
           /\ function_to_call.native_fn = ""
           /\ frames' = Append(frames,
                   CallFrame(ip + 1, callee_candidate_idx, Len(environments)))
           /\ Goes(function_to_call.start_ip, stack)
    /\ UNCHANGED <<globals, environments, heap>>

OP_CALL ==
    /\ Dispatch("OP_CALL")
    /\ LET num_args == operand
           callee_candidate_idx == Len(stack) - 1 - num_args
           function_to_call == stack[callee_candidate_idx + 1]
           args == SubSeq(stack, Len(stack) - num_args + 1, Len(stack))
           rest == Drop(stack, num_args + 1)
       IN  IF Len(stack) < num_args + 1
           THEN Fails("Stack underflow for OP_CALL", stack) /\ UNCHANGED <<frames, heap>>
           ELSE IF ~(function_to_call.t = "Fn" \/ IsHostCallable(function_to_call))
           THEN Fails("Cannot call non-function type", stack) /\ UNCHANGED <<frames, heap>>
           ELSE IF IsHostCallable(function_to_call)
           THEN LET r == HostCall(heap, function_to_call, args)
                IN  /\ IF r.exc # ""
                       THEN Fails("Error in python function", rest) /\ UNCHANGED heap
                       ELSE Goes(ip + 1, Append(rest, r.v)) /\ heap' = r.h
                    /\ UNCHANGED frames
           ELSE IF function_to_call.native_fn # ""
           THEN IF function_to_call.arity >= 0 /\ num_args # function_to_call.arity
                THEN Fails("Native function: wrong number of arguments", stack)
                     /\ UNCHANGED <<frames, heap>>
                ELSE \E r \in NativeCall(heap, function_to_call.native_fn, args) :
                        /\ IF r.exc # ""
                           THEN Fails("Error in native function", rest) /\ UNCHANGED heap
                           ELSE Goes(ip + 1, Append(rest, r.v)) /\ heap' = r.h
                        /\ UNCHANGED frames
           ELSE IF function_to_call.start_ip = NoIp
           THEN Fails("Pyle function has no bytecode start IP.", stack)
                /\ UNCHANGED <<frames, heap>>
           ELSE IF num_args # function_to_call.arity
           THEN Fails("Function: wrong number of arguments", stack)
                /\ UNCHANGED <<frames, heap>>
           ELSE /\ frames' = Append(frames,
                        CallFrame(ip + 1, callee_candidate_idx, Len(environments)))
                /\ Goes(function_to_call.start_ip, stack)
                /\ UNCHANGED heap
    /\ UNCHANGED <<globals, environments>>

\* OP_RETURN that leaves the environments of the invocation on the stack of
\* environments
OP_RETURN_keeps_environments ==
    /\ Dispatch("OP_RETURN")
    /\ IF stack = <<>>
       THEN /\ Fails("Stack underflow for OP_RETURN (no return value).", stack)
            /\ UNCHANGED <<environments, frames>>
       ELSE IF frames = <<>>
       THEN /\ ip' = ip + 1
            /\ stack' = Drop(stack, 1)
            /\ pc' = "returned"
            /\ result' = Result_ok(Top(stack))
            /\ UNCHANGED <<exception, environments, frames>>
       ELSE /\ frames' = Drop(frames, 1)
            /\ environments' = environments
            /\ Goes(Top(frames).return_ip,
                    Append(SubSeq(Drop(stack, 1), 1,
                                  Min(Top(frames).stack_slot, Len(stack) - 1)),
                           Top(stack)))
    /\ UNCHANGED <<globals, heap>>

OP_RETURN ==
    /\ Dispatch("OP_RETURN")
    /\ IF stack = <<>>
       THEN /\ Fails("Stack underflow for OP_RETURN (no return value).", stack)
            /\ UNCHANGED <<environments, frames>>
       ELSE LET return_value == Top(stack)
            IN  IF frames = <<>>
                THEN /\ ip' = ip + 1
                     /\ stack' = Drop(stack, 1)
                     /\ pc' = "returned"
                     /\ result' = Result_ok(return_value)
                     /\ UNCHANGED <<exception, environments, frames>>
                ELSE LET frame == Top(frames)
                     IN  /\ frames' = Drop(frames, 1)
                         /\ environments' =
                              IF Len(environments) > frame.env_depth
                              THEN SubSeq(environments, 1, frame.env_depth)
                              ELSE environments
                         /\ Goes(frame.return_ip,
                                 Append(SubSeq(Drop(stack, 1), 1,
                                               Min(frame.stack_slot, Len(stack) - 1)),
                                        return_value))
    /\ UNCHANGED <<globals, heap>>

OP_BUILD_KWARGS ==
    /\ Dispatch("OP_BUILD_KWARGS")
    /\ LET num_kwargs == operand
       IN  IF Len(stack) < num_kwargs + 1
           THEN Fails("Stack underflow for OP_BUILD_KWARGS.", stack)
           ELSE LET kw_names == Top(stack).names
                    kw_values == SubSeq(stack, Len(stack) - num_kwargs, Len(stack) - 1)
                    kwargs == [n \in {kw_names[i] : i \in 1..Len(kw_names)} |->
                                 kw_values[CHOOSE i \in 1..Len(kw_names) :
                                     /\ kw_names[i] = n
                                     /\ \A j \in (i + 1)..Len(kw_names) : kw_names[j] # n]]
                    firsts == {i \in 1..Len(kw_names) :
                                 \A j \in 1..(i - 1) : kw_names[j] # kw_names[i]}
                    keys == [k \in 1..Cardinality(firsts) |->
                               kw_names[CHOOSE i \in firsts :
                                   Cardinality({j \in firsts : j < i}) = k - 1]]
                IN  Goes(ip + 1, Append(Drop(stack, num_kwargs + 1), KwArgsV(keys, kwargs)))
    /\ UNCHANGED <<globals, environments, frames, heap>>

\* OP_CALL_KW that enters the body of a user function as OP_CALL does, its
\* keyword mapping dropped
OP_CALL_KW_enters_function ==
    /\ Dispatch("OP_CALL_KW")
    /\ LET num_args == operand
           kwargs == Top(stack)
           args == SubSeq(stack, Len(stack) - num_args, Len(stack) - 1)
           func == stack[Len(stack) - num_args - 1]
           rest == Drop(stack, num_args + 2)
       IN  IF Len(stack) < num_args + 2
           THEN Fails("Stack underflow for OP_CALL_KW.", stack) /\ UNCHANGED <<heap, frames>>
           ELSE IF func.t = "Fn" /\ func.start_ip # NoIp
           THEN /\ frames' = Append(frames,
                        CallFrame(ip + 1, Len(stack) - num_args - 2, Len(environments)))
                /\ Goes(func.start_ip, Drop(stack, 1))
                /\ UNCHANGED heap
           ELSE LET r == HostCallKw(heap, func, args, kwargs)
                IN  /\ IF r.exc # ""
                       THEN Fails("Error in function call with kwargs", rest) /\ UNCHANGED heap
                       ELSE Goes(ip + 1, Append(rest, r.v)) /\ heap' = r.h
                    /\ UNCHANGED frames
    /\ UNCHANGED <<globals, environments>>

\* kwargs, the args and func are popped, then func(*args, **kwargs) runs in a
\* try of its own: its result is pushed, its exception becomes the Err
OP_CALL_KW ==
    /\ Dispatch("OP_CALL_KW")
    /\ LET num_args == operand
           kwargs == Top(stack)
           args == SubSeq(stack, Len(stack) - num_args, Len(stack) - 1)
           func == stack[Len(stack) - num_args - 1]
           rest == Drop(stack, num_args + 2)
       IN  IF Len(stack) < num_args + 2
           THEN Fails("Stack underflow for OP_CALL_KW.", stack) /\ UNCHANGED heap
           ELSE LET r == HostCallKw(heap, func, args, kwargs)
                IN  IF r.exc # ""
                    THEN Fails("Error in function call with kwargs", rest) /\ UNCHANGED heap
                    ELSE Goes(ip + 1, Append(rest, r.v)) /\ heap' = r.h
    /\ UNCHANGED <<globals, environments, frames>>

Next ==
    \/ Compile
    \/ Interpret
    \/ OP_CONST
    \/ OP_DEF_GLOBAL
    \/ OP_GET_GLOBAL
    \/ OP_ADD
    \/ OP_SUBTRACT
    \/ OP_MULTIPLY
    \/ OP_DIVIDE
    \/ OP_MODULO
    \/ OP_NEGATE
    \/ OP_NOT
    \/ OP_EQUAL
    \/ OP_NOT_EQUAL
    \/ OP_GREATER
    \/ OP_GREATER_EQUAL
    \/ OP_LESS
    \/ OP_LESS_EQUAL
    \/ OP_AND
    \/ OP_OR
    \/ OP_TRUE
    \/ OP_FALSE
    \/ OP_BUILD_RANGE
    \/ OP_ITER_NEW
    \/ OP_ITER_NEXT_OR_JUMP
    \/ OP_BUILD_LIST
    \/ OP_INDEX_GET
    \/ OP_INDEX_SET
    \/ OP_GET_ATTR
    \/ OP_ENTER_SCOPE
    \/ OP_EXIT_SCOPE
    \/ OP_DEF_LOCAL
    \/ OP_DEF_CONST_LOCAL
    \/ OP_GET_LOCAL
    \/ OP_SET_LOCAL
    \/ OP_JUMP_IF_FALSE
    \/ OP_JUMP
    \/ OP_POP
    \/ OP_CALL
    \/ OP_RETURN
    \/ OP_BUILD_KWARGS
    \/ OP_CALL_KW

Spec == Init /\ [][Next]_vars

(***************************************************************************)
(* Chunks handed to PyleVM.interpret directly, without the compiler: a     *)
(* chunk is any list of instructions with any list of constants, so the    *)
(* VM also meets instruction sequences the compiler never emits.           *)
(***************************************************************************)
\* BEGIN CHUNKS
\* a global g exists and no environment has g: OP_GET_LOCAL g
K_get_local_global_int ==
    [bytecode_chunk |-> <<Instruction("OP_ENTER_SCOPE", NoOperand), Instruction("OP_CONST", 0), Instruction("OP_DEF_GLOBAL", 1), Instruction("OP_GET_GLOBAL", 1), Instruction("OP_POP", NoOperand), Instruction("OP_GET_LOCAL", 1), Instruction("OP_RETURN", NoOperand)>>,
     constants |-> <<IntV(3), StrV("g")>>]

\* a global g exists and no environment has g: OP_GET_LOCAL g
K_get_local_global_float ==
    [bytecode_chunk |-> <<Instruction("OP_ENTER_SCOPE", NoOperand), Instruction("OP_CONST", 0), Instruction("OP_DEF_GLOBAL", 1), Instruction("OP_GET_GLOBAL", 1), Instruction("OP_POP", NoOperand), Instruction("OP_GET_LOCAL", 1), Instruction("OP_RETURN", NoOperand)>>,
     constants |-> <<FloatV(3, 2), StrV("g")>>]

\* a global g exists and no environment has g: OP_GET_LOCAL g
K_get_local_global_bool ==
    [bytecode_chunk |-> <<Instruction("OP_ENTER_SCOPE", NoOperand), Instruction("OP_CONST", 0), Instruction("OP_DEF_GLOBAL", 1), Instruction("OP_GET_GLOBAL", 1), Instruction("OP_POP", NoOperand), Instruction("OP_GET_LOCAL", 1), Instruction("OP_RETURN", NoOperand)>>,
     constants |-> <<BoolV(TRUE), StrV("g")>>]

\* OP_GET_LOCAL g with a global g and no environment at all
K_get_local_no_scope ==
    [bytecode_chunk |-> <<Instruction("OP_CONST", 0), Instruction("OP_DEF_GLOBAL", 1), Instruction("OP_GET_LOCAL", 1), Instruction("OP_RETURN", NoOperand)>>,
     constants |-> <<IntV(1), StrV("g")>>]

\* x read inside and after a scope that shadows it
K_get_local_shadow ==
    [bytecode_chunk |-> <<Instruction("OP_ENTER_SCOPE", NoOperand), Instruction("OP_CONST", 0), Instruction("OP_DEF_LOCAL", 2), Instruction("OP_ENTER_SCOPE", NoOperand), Instruction("OP_CONST", 1), Instruction("OP_DEF_LOCAL", 2), Instruction("OP_GET_LOCAL", 2), Instruction("OP_POP", NoOperand), Instruction("OP_EXIT_SCOPE", NoOperand), Instruction("OP_GET_LOCAL", 2), Instruction("OP_RETURN", NoOperand)>>,
     constants |-> <<IntV(1), IntV(2), StrV("x")>>]

\* OP_ITER_NEW on a constant, then a loop over the iterator
K_iter_new_int ==
    [bytecode_chunk |-> <<Instruction("OP_CONST", 0), Instruction("OP_ITER_NEW", NoOperand), Instruction("OP_ITER_NEXT_OR_JUMP", 5), Instruction("OP_POP", NoOperand), Instruction("OP_JUMP", 2), Instruction("OP_CONST", 0), Instruction("OP_RETURN", NoOperand)>>,
     constants |-> <<IntV(3)>>]

\* OP_ITER_NEW on a constant, then a loop over the iterator
K_iter_new_float ==
    [bytecode_chunk |-> <<Instruction("OP_CONST", 0), Instruction("OP_ITER_NEW", NoOperand), Instruction("OP_ITER_NEXT_OR_JUMP", 5), Instruction("OP_POP", NoOperand), Instruction("OP_JUMP", 2), Instruction("OP_CONST", 0), Instruction("OP_RETURN", NoOperand)>>,
     constants |-> <<FloatV(3, 2)>>]

\* OP_ITER_NEW on a constant, then a loop over the iterator
K_iter_new_bool ==
    [bytecode_chunk |-> <<Instruction("OP_CONST", 0), Instruction("OP_ITER_NEW", NoOperand), Instruction("OP_ITER_NEXT_OR_JUMP", 5), Instruction("OP_POP", NoOperand), Instruction("OP_JUMP", 2), Instruction("OP_CONST", 0), Instruction("OP_RETURN", NoOperand)>>,
     constants |-> <<BoolV(TRUE)>>]

\* OP_ITER_NEW on a constant, then a loop over the iterator
K_iter_new_str ==
    [bytecode_chunk |-> <<Instruction("OP_CONST", 0), Instruction("OP_ITER_NEW", NoOperand), Instruction("OP_ITER_NEXT_OR_JUMP", 5), Instruction("OP_POP", NoOperand), Instruction("OP_JUMP", 2), Instruction("OP_CONST", 0), Instruction("OP_RETURN", NoOperand)>>,
     constants |-> <<StrV("ab")>>]

\* OP_ITER_NEW on a constant, then a loop over the iterator
K_iter_new_empty_str ==
    [bytecode_chunk |-> <<Instruction("OP_CONST", 0), Instruction("OP_ITER_NEW", NoOperand), Instruction("OP_ITER_NEXT_OR_JUMP", 5), Instruction("OP_POP", NoOperand), Instruction("OP_JUMP", 2), Instruction("OP_CONST", 0), Instruction("OP_RETURN", NoOperand)>>,
     constants |-> <<StrV("")>>]

\* OP_ITER_NEW on a constant, then a loop over the iterator
K_iter_new_none ==
    [bytecode_chunk |-> <<Instruction("OP_CONST", 0), Instruction("OP_ITER_NEW", NoOperand), Instruction("OP_ITER_NEXT_OR_JUMP", 5), Instruction("OP_POP", NoOperand), Instruction("OP_JUMP", 2), Instruction("OP_CONST", 0), Instruction("OP_RETURN", NoOperand)>>,
     constants |-> <<NoneV>>]

\* OP_ITER_NEW on a constant, then a loop over the iterator
K_iter_new_fn ==
    [bytecode_chunk |-> <<Instruction("OP_CONST", 0), Instruction("OP_ITER_NEW", NoOperand), Instruction("OP_ITER_NEXT_OR_JUMP", 5), Instruction("OP_POP", NoOperand), Instruction("OP_JUMP", 2), Instruction("OP_CONST", 0), Instruction("OP_RETURN", NoOperand)>>,
     constants |-> <<PyleFunction("len", 1, NoIp, "native_len")>>]

\* OP_ITER_NEW on a constant, then a loop over the iterator
K_iter_new_range ==
    [bytecode_chunk |-> <<Instruction("OP_CONST", 0), Instruction("OP_ITER_NEW", NoOperand), Instruction("OP_ITER_NEXT_OR_JUMP", 5), Instruction("OP_POP", NoOperand), Instruction("OP_JUMP", 2), Instruction("OP_CONST", 0), Instruction("OP_RETURN", NoOperand)>>,
     constants |-> <<Range(IntV(0), IntV(2), IntV(1))>>]

\* OP_ITER_NEW on a constant, then a loop over the iterator
K_iter_new_range_down ==
    [bytecode_chunk |-> <<Instruction("OP_CONST", 0), Instruction("OP_ITER_NEW", NoOperand), Instruction("OP_ITER_NEXT_OR_JUMP", 5), Instruction("OP_POP", NoOperand), Instruction("OP_JUMP", 2), Instruction("OP_CONST", 0), Instruction("OP_RETURN", NoOperand)>>,
     constants |-> <<Range(IntV(3), IntV(0), IntV(-2))>>]

\* OP_ITER_NEW on a constant, then a loop over the iterator
K_iter_new_range_empty ==
    [bytecode_chunk |-> <<Instruction("OP_CONST", 0), Instruction("OP_ITER_NEW", NoOperand), Instruction("OP_ITER_NEXT_OR_JUMP", 5), Instruction("OP_POP", NoOperand), Instruction("OP_JUMP", 2), Instruction("OP_CONST", 0), Instruction("OP_RETURN", NoOperand)>>,
     constants |-> <<Range(IntV(2), IntV(2), IntV(1))>>]

\* OP_ITER_NEW on a list of two, then a loop over the iterator
K_iter_new_list ==
    [bytecode_chunk |-> <<Instruction("OP_CONST", 0), Instruction("OP_CONST", 1), Instruction("OP_BUILD_LIST", 2), Instruction("OP_ITER_NEW", NoOperand), Instruction("OP_ITER_NEXT_OR_JUMP", 7), Instruction("OP_POP", NoOperand), Instruction("OP_JUMP", 4), Instruction("OP_CONST", 0), Instruction("OP_RETURN", NoOperand)>>,
     constants |-> <<IntV(5), IntV(6)>>]

\* OP_ITER_NEW on a KwArgs value, then a loop over the iterator
K_iter_new_kwargs ==
    [bytecode_chunk |-> <<Instruction("OP_CONST", 0), Instruction("OP_CONST", 1), Instruction("OP_BUILD_KWARGS", 1), Instruction("OP_ITER_NEW", NoOperand), Instruction("OP_ITER_NEXT_OR_JUMP", 7), Instruction("OP_POP", NoOperand), Instruction("OP_JUMP", 4), Instruction("OP_CONST", 0), Instruction("OP_RETURN", NoOperand)>>,
     constants |-> <<IntV(5), NameListV(<<"a">>)>>]

\* OP_ITER_NEW on an iterator, then a loop over the iterator
K_iter_new_iterator ==
    [bytecode_chunk |-> <<Instruction("OP_CONST", 0), Instruction("OP_ITER_NEW", NoOperand), Instruction("OP_ITER_NEW", NoOperand), Instruction("OP_ITER_NEXT_OR_JUMP", 6), Instruction("OP_POP", NoOperand), Instruction("OP_JUMP", 3), Instruction("OP_CONST", 0), Instruction("OP_RETURN", NoOperand)>>,
     constants |-> <<StrV("ab")>>]

\* OP_ITER_NEXT_OR_JUMP with a constant on top of the stack
K_next_int ==
    [bytecode_chunk |-> <<Instruction("OP_CONST", 0), Instruction("OP_ITER_NEXT_OR_JUMP", 3), Instruction("OP_POP", NoOperand), Instruction("OP_CONST", 0), Instruction("OP_RETURN", NoOperand)>>,
     constants |-> <<IntV(3)>>]

\* OP_ITER_NEXT_OR_JUMP with a constant on top of the stack
K_next_float ==
    [bytecode_chunk |-> <<Instruction("OP_CONST", 0), Instruction("OP_ITER_NEXT_OR_JUMP", 3), Instruction("OP_POP", NoOperand), Instruction("OP_CONST", 0), Instruction("OP_RETURN", NoOperand)>>,
     constants |-> <<FloatV(3, 2)>>]

\* OP_ITER_NEXT_OR_JUMP with a constant on top of the stack
K_next_bool ==
    [bytecode_chunk |-> <<Instruction("OP_CONST", 0), Instruction("OP_ITER_NEXT_OR_JUMP", 3), Instruction("OP_POP", NoOperand), Instruction("OP_CONST", 0), Instruction("OP_RETURN", NoOperand)>>,
     constants |-> <<BoolV(TRUE)>>]

\* OP_ITER_NEXT_OR_JUMP with a constant on top of the stack
K_next_str ==
    [bytecode_chunk |-> <<Instruction("OP_CONST", 0), Instruction("OP_ITER_NEXT_OR_JUMP", 3), Instruction("OP_POP", NoOperand), Instruction("OP_CONST", 0), Instruction("OP_RETURN", NoOperand)>>,
     constants |-> <<StrV("ab")>>]

\* OP_ITER_NEXT_OR_JUMP with a constant on top of the stack
K_next_empty_str ==
    [bytecode_chunk |-> <<Instruction("OP_CONST", 0), Instruction("OP_ITER_NEXT_OR_JUMP", 3), Instruction("OP_POP", NoOperand), Instruction("OP_CONST", 0), Instruction("OP_RETURN", NoOperand)>>,
     constants |-> <<StrV("")>>]

\* OP_ITER_NEXT_OR_JUMP with a constant on top of the stack
K_next_none ==
    [bytecode_chunk |-> <<Instruction("OP_CONST", 0), Instruction("OP_ITER_NEXT_OR_JUMP", 3), Instruction("OP_POP", NoOperand), Instruction("OP_CONST", 0), Instruction("OP_RETURN", NoOperand)>>,
     constants |-> <<NoneV>>]

\* OP_ITER_NEXT_OR_JUMP with a constant on top of the stack
K_next_fn ==
    [bytecode_chunk |-> <<Instruction("OP_CONST", 0), Instruction("OP_ITER_NEXT_OR_JUMP", 3), Instruction("OP_POP", NoOperand), Instruction("OP_CONST", 0), Instruction("OP_RETURN", NoOperand)>>,
     constants |-> <<PyleFunction("len", 1, NoIp, "native_len")>>]

\* OP_ITER_NEXT_OR_JUMP with a constant on top of the stack
K_next_range ==
    [bytecode_chunk |-> <<Instruction("OP_CONST", 0), Instruction("OP_ITER_NEXT_OR_JUMP", 3), Instruction("OP_POP", NoOperand), Instruction("OP_CONST", 0), Instruction("OP_RETURN", NoOperand)>>,
     constants |-> <<Range(IntV(0), IntV(2), IntV(1))>>]

\* OP_ITER_NEXT_OR_JUMP with a list on top of the stack
K_next_list ==
    [bytecode_chunk |-> <<Instruction("OP_CONST", 0), Instruction("OP_BUILD_LIST", 1), Instruction("OP_ITER_NEXT_OR_JUMP", 4), Instruction("OP_POP", NoOperand), Instruction("OP_CONST", 0), Instruction("OP_RETURN", NoOperand)>>,
     constants |-> <<IntV(1)>>]

\* an exhausted list iterator asked again after its list has grown
K_next_exhausted ==
    [bytecode_chunk |-> <<Instruction("OP_ENTER_SCOPE", NoOperand), Instruction("OP_CONST", 0), Instruction("OP_BUILD_LIST", 1), Instruction("OP_DEF_LOCAL", 1), Instruction("OP_GET_LOCAL", 1), Instruction("OP_ITER_NEW", NoOperand), Instruction("OP_DEF_LOCAL", 2), Instruction("OP_GET_LOCAL", 2), Instruction("OP_ITER_NEXT_OR_JUMP", 11), Instruction("OP_POP", NoOperand), Instruction("OP_JUMP", 8), Instruction("OP_GET_LOCAL", 1), Instruction("OP_GET_ATTR", 3), Instruction("OP_CONST", 0), Instruction("OP_CALL", 1), Instruction("OP_POP", NoOperand), Instruction("OP_GET_LOCAL", 2), Instruction("OP_ITER_NEXT_OR_JUMP", 19), Instruction("OP_RETURN", NoOperand), Instruction("OP_CONST", 1), Instruction("OP_RETURN", NoOperand)>>,
     constants |-> <<IntV(1), StrV("l"), StrV("it"), StrV("append")>>]

\* an exhausted range iterator asked again
K_next_exhausted_range ==
    [bytecode_chunk |-> <<Instruction("OP_ENTER_SCOPE", NoOperand), Instruction("OP_CONST", 0), Instruction("OP_ITER_NEW", NoOperand), Instruction("OP_DEF_LOCAL", 1), Instruction("OP_GET_LOCAL", 1), Instruction("OP_ITER_NEXT_OR_JUMP", 8), Instruction("OP_POP", NoOperand), Instruction("OP_JUMP", 5), Instruction("OP_GET_LOCAL", 1), Instruction("OP_ITER_NEXT_OR_JUMP", 11), Instruction("OP_RETURN", NoOperand), Instruction("OP_CONST", 1), Instruction("OP_RETURN", NoOperand)>>,
     constants |-> <<Range(IntV(0), IntV(2), IntV(1)), StrV("it")>>]

\* a chunk with no OP_RETURN and no OP_HALT: ip leaves the chunk
K_no_return ==
    [bytecode_chunk |-> <<Instruction("OP_CONST", 0)>>,
     constants |-> <<IntV(7)>>]

\* the empty chunk
K_empty_chunk ==
    [bytecode_chunk |-> <<>>,
     constants |-> <<>>]

\* a jump beyond the last instruction
K_jump_out ==
    [bytecode_chunk |-> <<Instruction("OP_CONST", 0), Instruction("OP_JUMP", 5), Instruction("OP_RETURN", NoOperand)>>,
     constants |-> <<IntV(7)>>]

\* OP_HALT with a value on the stack, instructions after it
K_halt ==
    [bytecode_chunk |-> <<Instruction("OP_CONST", 0), Instruction("OP_HALT", NoOperand), Instruction("OP_CONST", 1), Instruction("OP_RETURN", NoOperand)>>,
     constants |-> <<IntV(7), IntV(8)>>]

\* OP_HALT with an empty stack
K_halt_empty ==
    [bytecode_chunk |-> <<Instruction("OP_HALT", NoOperand)>>,
     constants |-> <<>>]

\* an instruction that fails, instructions after it
K_error_then_more ==
    [bytecode_chunk |-> <<Instruction("OP_CONST", 0), Instruction("OP_NEGATE", NoOperand), Instruction("OP_POP", NoOperand), Instruction("OP_CONST", 1), Instruction("OP_RETURN", NoOperand)>>,
     constants |-> <<StrV("a"), IntV(8)>>]

\* OP_RETURN with a frame on the frame stack, then at top level
K_return_in_frame ==
    [bytecode_chunk |-> <<Instruction("OP_CONST", 0), Instruction("OP_CALL", 0), Instruction("OP_RETURN", NoOperand), Instruction("OP_ENTER_SCOPE", NoOperand), Instruction("OP_CONST", 1), Instruction("OP_RETURN", NoOperand)>>,
     constants |-> <<PyleFunction("f", 0, 3, ""), IntV(8)>>]

\* list.append called with one argument and an empty kwargs mapping
K_call_kw_empty ==
    [bytecode_chunk |-> <<Instruction("OP_CONST", 0), Instruction("OP_BUILD_LIST", 1), Instruction("OP_GET_ATTR", 1), Instruction("OP_CONST", 0), Instruction("OP_CONST", 2), Instruction("OP_BUILD_KWARGS", 0), [opcode |-> "OP_CALL_KW", operand |-> 1, operand_kw |-> 0], Instruction("OP_RETURN", NoOperand)>>,
     constants |-> <<IntV(1), StrV("append"), NameListV(<<>>)>>]

\* a user function called with an empty kwargs mapping
K_call_kw_fn_empty ==
    [bytecode_chunk |-> <<Instruction("OP_CONST", 0), Instruction("OP_CONST", 1), Instruction("OP_BUILD_KWARGS", 0), [opcode |-> "OP_CALL_KW", operand |-> 0, operand_kw |-> 0], Instruction("OP_RETURN", NoOperand), Instruction("OP_CONST", 1), Instruction("OP_RETURN", NoOperand)>>,
     constants |-> <<PyleFunction("f", 0, 5, ""), NameListV(<<>>)>>]

\* the native len called with an empty kwargs mapping
K_call_kw_native_empty ==
    [bytecode_chunk |-> <<Instruction("OP_CONST", 0), Instruction("OP_CONST", 1), Instruction("OP_CONST", 2), Instruction("OP_BUILD_KWARGS", 0), [opcode |-> "OP_CALL_KW", operand |-> 1, operand_kw |-> 0], Instruction("OP_RETURN", NoOperand)>>,
     constants |-> <<PyleFunction("len", 1, NoIp, "native_len"), StrV("ab"), NameListV(<<>>)>>]

\* OP_CALL_KW with an Int where the kwargs mapping should be
K_call_kw_not_mapping ==
    [bytecode_chunk |-> <<Instruction("OP_CONST", 0), Instruction("OP_BUILD_LIST", 1), Instruction("OP_GET_ATTR", 1), Instruction("OP_CONST", 0), Instruction("OP_CONST", 0), [opcode |-> "OP_CALL_KW", operand |-> 1, operand_kw |-> 0], Instruction("OP_RETURN", NoOperand)>>,
     constants |-> <<IntV(1), StrV("append")>>]

\* OP_CALL_KW with too few values on the stack
K_call_kw_underflow ==
    [bytecode_chunk |-> <<Instruction("OP_CONST", 0), [opcode |-> "OP_CALL_KW", operand |-> 1, operand_kw |-> 0], Instruction("OP_RETURN", NoOperand)>>,
     constants |-> <<IntV(1)>>]

\* a global read that the chunk does not define
K_get_global_only ==
    [bytecode_chunk |-> <<Instruction("OP_GET_GLOBAL", 0), Instruction("OP_RETURN", NoOperand)>>,
     constants |-> <<StrV("g")>>]

\* a local read with no scope entered
K_get_local_only ==
    [bytecode_chunk |-> <<Instruction("OP_GET_LOCAL", 0), Instruction("OP_RETURN", NoOperand)>>,
     constants |-> <<StrV("g")>>]

\* OP_POP as the first instruction
K_pop_first ==
    [bytecode_chunk |-> <<Instruction("OP_POP", NoOperand), Instruction("OP_CONST", 0), Instruction("OP_RETURN", NoOperand)>>,
     constants |-> <<IntV(7)>>]

\* OP_EXIT_SCOPE as the first instruction
K_exit_scope_first ==
    [bytecode_chunk |-> <<Instruction("OP_EXIT_SCOPE", NoOperand), Instruction("OP_CONST", 0), Instruction("OP_RETURN", NoOperand)>>,
     constants |-> <<IntV(7)>>]

\* a chunk that ends with a scope open, a local g, a global g and a value on the stack
K_leave_scope_open ==
    [bytecode_chunk |-> <<Instruction("OP_CONST", 0), Instruction("OP_DEF_GLOBAL", 1), Instruction("OP_ENTER_SCOPE", NoOperand), Instruction("OP_CONST", 0), Instruction("OP_DEF_LOCAL", 1), Instruction("OP_CONST", 0)>>,
     constants |-> <<IntV(1), StrV("g")>>]

\* an instruction that fails inside a called function, in a scope
K_fault_in_frame ==
    [bytecode_chunk |-> <<Instruction("OP_CONST", 0), Instruction("OP_CALL", 0), Instruction("OP_RETURN", NoOperand), Instruction("OP_ENTER_SCOPE", NoOperand), Instruction("OP_CONST", 1), Instruction("OP_NEGATE", NoOperand), Instruction("OP_RETURN", NoOperand)>>,
     constants |-> <<PyleFunction("f", 0, 3, ""), StrV("a")>>]

\* OP_RETURN of a constant at top level
K_return_only ==
    [bytecode_chunk |-> <<Instruction("OP_CONST", 0), Instruction("OP_RETURN", NoOperand)>>,
     constants |-> <<IntV(7)>>]

Chunks ==
    {K_get_local_global_int, K_get_local_global_float, K_get_local_global_bool,
     K_get_local_no_scope, K_get_local_shadow, K_iter_new_int, K_iter_new_float,
     K_iter_new_bool, K_iter_new_str, K_iter_new_empty_str, K_iter_new_none,
     K_iter_new_fn, K_iter_new_range, K_iter_new_range_down, K_iter_new_range_empty,
     K_iter_new_list, K_iter_new_kwargs, K_iter_new_iterator, K_next_int, K_next_float,
     K_next_bool, K_next_str, K_next_empty_str, K_next_none, K_next_fn, K_next_range,
     K_next_list, K_next_exhausted, K_next_exhausted_range, K_no_return, K_empty_chunk,
     K_jump_out, K_halt, K_halt_empty, K_error_then_more, K_return_in_frame,
     K_call_kw_empty, K_call_kw_fn_empty, K_call_kw_native_empty, K_call_kw_not_mapping,
     K_call_kw_underflow, K_get_global_only, K_get_local_only, K_pop_first,
     K_exit_scope_first, K_leave_scope_open, K_fault_in_frame, K_return_only}

\* END CHUNKS

\* PyleVM.interpret(bytecode_chunk, constants) up to the call of _run
InterpretChunk ==
    /\ pc = "constructed"
    /\ \E chunk \in Chunks :
          /\ bytecode_chunk' = chunk.bytecode_chunk
          /\ constants' = chunk.constants
    /\ ip' = 0
    /\ stack' = <<>>
    /\ globals' = EmptyDict
    /\ environments' = <<>>
    /\ frames' = <<>>
    /\ pc' = "running"
    /\ UNCHANGED <<compiler, program, heap, result, exception, steps>>

\* return Result.ok(self.stack[-1] if self.stack else None)
OP_HALT ==
    /\ Dispatch("OP_HALT")
    /\ ip' = ip + 1
    /\ pc' = "returned"
    /\ result' = Result_ok(IF stack = <<>> THEN NoneV ELSE Top(stack))
    /\ UNCHANGED <<stack, exception, globals, environments, frames, heap>>

\* the head of the loop of _run with ip outside the chunk: the loop is left
\* and _run returns Result.ok of the top of the stack (None if it is empty)
IpOutOfBounds ==
    /\ pc = "running"
    /\ ~(0 <= ip /\ ip < Len(bytecode_chunk))
    /\ pc' = "returned"
    /\ result' = Result_ok(IF stack = <<>> THEN NoneV ELSE Top(stack))
    /\ UNCHANGED <<compiler, program, bytecode_chunk, constants, ip, stack, globals,
                   environments, frames, heap, exception, steps>>

NextChunks ==
    \/ InterpretChunk
    \/ OP_HALT
    \/ IpOutOfBounds
    \/ OP_NEGATE
    \/ OP_CONST
    \/ OP_DEF_GLOBAL
    \/ OP_GET_GLOBAL
    \/ OP_ITER_NEW
    \/ OP_ITER_NEXT_OR_JUMP
    \/ OP_BUILD_LIST
    \/ OP_GET_ATTR
    \/ OP_ENTER_SCOPE
    \/ OP_EXIT_SCOPE
    \/ OP_DEF_LOCAL
    \/ OP_GET_LOCAL
    \/ OP_JUMP
    \/ OP_POP
    \/ OP_CALL
    \/ OP_RETURN
    \/ OP_BUILD_KWARGS
    \/ OP_CALL_KW

SpecChunks == Init /\ [][NextChunks]_vars

(***************************************************************************)
(* PyleVM.interpret called again and again on one PyleVM object, on the    *)
(* chunks above: each call after the first finds the VM as the run before  *)
(* left it.  The objects of the host that the run before made are out of    *)
(* reach once the stacks and the globals are new, so the heap starts empty; *)
(* result and exception are the outcome of the call that is being made.    *)
(***************************************************************************)
\* interpret that leaves the globals of the run before in place
InterpretAgain_keeps_globals ==
    /\ pc \in {"returned", "raised"}
    /\ \E chunk \in Chunks :
          /\ bytecode_chunk' = chunk.bytecode_chunk
          /\ constants' = chunk.constants
    /\ ip' = 0
    /\ stack' = <<>>
    /\ environments' = <<>>
    /\ frames' = <<>>
    /\ heap' = <<>>
    /\ result' = Result(NoneV, NoneV)
    /\ exception' = ""
    /\ steps' = 0
    /\ pc' = "running"
    /\ UNCHANGED <<compiler, program, globals>>

\* PyleVM.interpret(bytecode_chunk, constants), up to the call of _run, on a
\* VM whose run before has returned or raised
InterpretAgain ==
    /\ pc \in {"returned", "raised"}
    /\ \E chunk \in Chunks :
          /\ bytecode_chunk' = chunk.bytecode_chunk
          /\ constants' = chunk.constants
    /\ ip' = 0
    /\ stack' = <<>>
    /\ globals' = EmptyDict
    /\ environments' = <<>>
    /\ frames' = <<>>
    /\ heap' = <<>>
    /\ result' = Result(NoneV, NoneV)
    /\ exception' = ""
    /\ steps' = 0
    /\ pc' = "running"
    /\ UNCHANGED <<compiler, program>>

NextRuns ==
    \/ NextChunks
    \/ InterpretAgain

SpecRuns == Init /\ [][NextRuns]_vars

(***************************************************************************)
(* Compiler.compile called again and again on one Compiler object, on the  *)
(* programs of the catalogue and on two ASTs built by hand whose           *)
(* compilation raises inside a loop: a unary + (the parser builds UnaryOp   *)
(* for - and not only).                                                    *)
(***************************************************************************)
\* while true { +1 }
A_abort_in_while ==
    Block(<<WhileStmt(Boolean(TRUE), Block(<<UnaryOp("PLUS", Number(IntV(1)))>>, TRUE))>>, FALSE)

\* for v in "ab" { +2.5 }
A_abort_in_for ==
    Block(<<ForInStmt("v", String("ab"),
                      Block(<<UnaryOp("PLUS", Number(FloatV(5, 2)))>>, TRUE))>>, FALSE)

Recompiled == Catalogue \cup {A_abort_in_while, A_abort_in_for}

\* compiler.compile(p) on the object as the calls before have left it
Recompile ==
    /\ pc \in {"constructed", "compiled", "compile_error"}
    /\ \E p \in Recompiled :
          /\ program' = p
          /\ compiler' = compile(compiler, p)
    /\ pc' = IF compiler'.error = "" THEN "compiled" ELSE "compile_error"
    /\ UNCHANGED <<bytecode_chunk, constants, ip, stack, globals, environments, frames,
                   heap, result, exception, steps>>

NextCompile == Recompile

SpecCompile == Init /\ [][NextCompile]_vars

(***************************************************************************)
(* Positions in a compiled chunk that the properties below speak of.       *)
(***************************************************************************)
\* the compiler when compile() is about to visit the root block: builtins
\* prelude and the main OP_ENTER_SCOPE emitted, scope_depth 1
main_scope ==
    [emit_instruction(_initialize_builtins(Compiler), "OP_ENTER_SCOPE", NoOperand, NoneV)
        EXCEPT !.scope_depth = 1]

\* the ip just after the code visit_Block emits for the first k statements of
\* the root block p (their OP_POP included)
StatementEnd(p, k) ==
    Len(block_statements(main_scope, SubSeq(p.statements, 1, k), 1).bytecode_chunk)

\* the ips between the top-level statements of p: before the first one, and
\* after each
StatementBounds(p) == {StatementEnd(p, k) : k \in 0..Len(p.statements)}

\* the start_ip of every user function of the loaded chunk
FunctionStarts ==
    {constants[i].start_ip :
        i \in {j \in 1..Len(constants) :
                 constants[j].t = "Fn" /\ constants[j].start_ip # NoIp}}

\* the ip just after the body of the function that starts at start_ip: the
\* target of the OP_JUMP the compiler puts in front of the body
body_end(start_ip) == bytecode_chunk[start_ip].operand

\* the start_ip of the innermost function whose code holds instruction i,
\* NoIp when i is top-level code
function_of(i) ==
    LET holding == {s \in FunctionStarts : s <= i /\ i < body_end(s)}
    IN  IF holding = {} THEN NoIp
        ELSE CHOOSE s \in holding : \A o \in holding : o <= s

\* the number of scopes that lexically enclose instruction i: OP_ENTER_SCOPE
\* minus OP_EXIT_SCOPE in the chunk before it
scope_depth_at(i) ==
    Cardinality({j \in 1..i : bytecode_chunk[j].opcode = "OP_ENTER_SCOPE"})
    - Cardinality({j \in 1..i : bytecode_chunk[j].opcode = "OP_EXIT_SCOPE"})

(***************************************************************************)
(* Properties.                                                             *)
(***************************************************************************)

\* C1: whenever interpret returns an Ok result, the operand stack, the
\* environment stack and the call-frame stack are all empty.
C1_OkLeavesVMEmpty ==
    (pc = "returned" /\ ~is_err(result))
        => (stack = <<>> /\ environments = <<>> /\ frames = <<>>)

\* C2: after the code of any complete top-level statement has executed, the
\* operand stack depth is 0.
C2_StackEmptyBetweenStatements ==
    (pc = "running" /\ frames = <<>> /\ stack # <<>>)
        => ip \notin StatementBounds(program)

\* C3: OP_ENTER_SCOPE and OP_EXIT_SCOPE balance on every path: between
\* top-level statements (so before and after every top-level while / for-in,
\* and at the top of a top-level while loop each time `continue` or the end of
\* the body comes back to it) only the main scope is open.
C3_ScopesBalanceAcrossStatements ==
    (pc = "running" /\ frames = <<>> /\ Len(environments) # 1)
        => ip \notin StatementBounds(program)

\* C4: no runtime fault leaves interpret as a host exception: every step
\* either updates the VM or makes interpret return a result.
C4_NoHostException == pc # "raised"

\* C5: a variable read or assignment inside a user function resolves only to
\* the function's own scopes or to scopes that lexically enclose its
\* definition, never to a scope that only the caller has open.
C5_LexicalResolution ==
    (/\ pc = "running"
     /\ frames # <<>>
     /\ ip < Len(bytecode_chunk)
     /\ Fetch.opcode \in {"OP_GET_LOCAL", "OP_SET_LOCAL"}
     /\ function_of(ip) # NoIp)
        => LET i_env == Lookup(environments, constants[operand + 1].s)
           IN  \/ i_env = 0
               \/ i_env > Top(frames).env_depth
               \/ i_env <= scope_depth_at(function_of(ip))

\* C6: the value of the Ok result is the value of the program's final
\* expression statement: 14 for S1, and the values the scenarios S2..S5 name.
C6_FinalExpressionValue ==
    pc = "returned" =>
        /\ program = P_S1 => result = Result_ok(IntV(14))
        /\ program = P_S2 => result = Result_ok(IntV(1))
        /\ program = P_S3 => result = Result_ok(IntV(3))
        /\ program = P_S4 => result = Result_ok(IntV(10))
        /\ program = P_S5 => result = Result_ok(IntV(120))
        /\ program = P_expr => result = Result_ok(IntV(3))

\* C7: exactly one of is_ok() and is_err() is true of every result interpret
\* returns.
C7_OkXorErr == pc = "returned" => (is_ok(result) # is_err(result))

\* C8: OP_RETURN with a frame on the call-frame stack pops that one frame, goes
\* on at the instruction after the OP_CALL that pushed it, leaves the
\* environment stack at the depth the call was made at, and leaves the caller's
\* operand stack below the callee slot with the return value on top.
C8_ReturnRestoresCaller ==
    [][(/\ pc = "running"
        /\ steps' = steps + 1
        /\ Fetch.opcode = "OP_RETURN"
        /\ frames # <<>>
        /\ stack # <<>>)
         => (/\ frames' = Front(frames)
             /\ ip' = Top(frames).return_ip
             /\ bytecode_chunk[ip'].opcode = "OP_CALL"
             /\ Len(environments') = Top(frames).env_depth
             /\ Len(stack) > Top(frames).stack_slot
             /\ stack' = Append(SubSeq(stack, 1, Top(frames).stack_slot), Top(stack)))]_vars

\* C9: while a call frame is active, no step other than the OP_CALL that
\* pushes a frame or the OP_RETURN that pops one moves control out of the body
\* of the function it is in.
C9_ControlStaysInBody ==
    [][(pc = "running" /\ pc' = "running" /\ frames # <<>> /\ frames' = frames)
         => function_of(ip') = function_of(ip)]_vars

\* C10: `left and right` / `left or right` compile to the code of left, the
\* code of right, then the one opcode OP_AND / OP_OR, so each operand is
\* evaluated once: two calls of t() in P_or_count and P_and_count.
C10_LogicalOpCompilesLeftRightOp ==
    /\ (pc = "compiled" /\ program \in OperatorPrograms
            /\ program.statements[1].value.type = "LogicalOp")
        => LET node == program.statements[1].value
               left_right == _compile_node(_compile_node(main_scope, node.left), node.right)
               expected == emit_instruction(left_right, OPERATION_INTS[node.op], NoOperand,
                                            Token(node.op))
           IN  _compile_node(main_scope, node) = expected
    /\ (pc = "returned" /\ program \in {P_or_count, P_and_count})
        => result = Result_ok(IntV(2))

\* the call OP_CALL(num_args) of callee must be rejected: callee is not
\* callable, or a user function of another arity, or a registry native of
\* another, non-negative arity
IsBadCall(callee, num_args) ==
    \/ ~(callee.t = "Fn" \/ IsHostCallable(callee))
    \/ callee.t = "Fn" /\ callee.native_fn = "" /\ callee.arity # num_args
    \/ callee.t = "Fn" /\ callee.native_fn # "" /\ callee.arity >= 0
            /\ callee.arity # num_args

\* C11: OP_CALL(N) on a callee that is not callable, a user function with
\* arity # N or a registry native with arity >= 0 and arity # N makes interpret
\* return Err, pushes no frame and does not redirect ip; a registry native with
\* negative arity is invoked whatever N is (its result is pushed in place of
\* callee and arguments, or its own exception becomes the Err).
C11_BadCallsRejected ==
    [][(/\ pc = "running"
        /\ steps' = steps + 1
        /\ Fetch.opcode = "OP_CALL"
        /\ Len(stack) >= operand + 1)
         => LET callee == stack[Len(stack) - operand]
            IN  /\ IsBadCall(callee, operand)
                    => (/\ pc' = "returned"
                        /\ is_err(result')
                        /\ frames' = frames
                        /\ ip' = ip + 1)
                /\ (callee.t = "Fn" /\ callee.native_fn # "" /\ callee.arity < 0)
                    => (/\ frames' = frames
                        /\ ip' = ip + 1
                        /\ \/ pc' = "running" /\ Len(stack') = Len(stack) - operand
                           \/ /\ pc' = "returned"
                              /\ result'.err_val.msg = "Error in native function")]_vars

\* a call f() of fn f(a) has been rejected
C11_Witness ==
    /\ pc = "returned"
    /\ program = P_arity
    /\ is_err(result)
    /\ result.err_val.msg = "Function: wrong number of arguments"
    /\ frames = <<>>
    /\ bytecode_chunk[ip].opcode = "OP_CALL"

\* the child nodes of an AST node, in source order
Children(node) ==
    CASE node.type = "Block" -> node.statements
      [] node.type = "UnaryOp" -> <<node.operand>>
      [] node.type \in {"BinaryOp", "LogicalOp", "ComparisonOp"} -> <<node.left, node.right>>
      [] node.type = "VarDeclareStmt" -> <<node.initializer>>
      [] node.type \in {"AssignStmt", "ReturnStmt"} -> <<node.value>>
      [] node.type = "IfStmt" -> <<node.condition, node.then_branch, node.else_branch>>
      [] node.type = "WhileStmt" -> <<node.condition, node.body>>
      [] node.type = "RangeSpecifier" -> <<node.start, node.end, node.step>>
      [] node.type = "ForInStmt" -> <<node.iterable, node.body>>
      [] node.type = "ArrayLiteral" -> node.elements
      [] node.type \in {"FunctionExpr", "FunctionDefStmt"} -> <<node.body>>
      [] node.type = "CallExpr" ->
            <<node.callee>> \o node.arguments
                \o [i \in 1..Len(node.keywords) |-> node.keywords[i].value]
      [] node.type = "IndexExpr" -> <<node.collection, node.index>>
      [] node.type = "AssignIndexStmt" -> <<node.collection, node.index, node.value>>
      [] node.type = "DotExpr" -> <<node.object>>
      [] OTHER -> <<>>

\* the function definitions and function expressions in node, outermost first
RECURSIVE FunctionNodes(_)
RECURSIVE FunctionNodesIn(_, _)
FunctionNodes(node) ==
    (IF node.type \in {"FunctionExpr", "FunctionDefStmt"} THEN <<node>> ELSE <<>>)
        \o FunctionNodesIn(Children(node), 1)

FunctionNodesIn(nodes, i) ==
    IF i > Len(nodes) THEN <<>>
    ELSE FunctionNodes(nodes[i]) \o FunctionNodesIn(nodes, i + 1)

\* the name the compiler gives the function object of a function node
FunctionName(node) == IF node.type = "FunctionExpr" THEN "<lambda>" ELSE node.name

\* the parameters the program declares for the function called name
declared_params(name) ==
    LET fs == FunctionNodes(program)
    IN  fs[First({i \in 1..Len(fs) : FunctionName(fs[i]) = name})].params

\* the user functions whose prelude (the OP_DEF_LOCALs after the
\* OP_ENTER_SCOPE at start_ip) holds instruction i
PreludeFunctions(i) ==
    {constants[j] : j \in {k \in 1..Len(constants) :
        /\ constants[k].t = "Fn"
        /\ constants[k].start_ip # NoIp
        /\ constants[k].start_ip < i
        /\ i <= constants[k].start_ip + constants[k].arity}}

\* C12: arguments are bound positionally: each step of the prelude of a
\* called function f(p1, ..., pN) takes the argument on top of the stack, the
\* i-th one the call pushed above the callee, and binds it to p_i in the
\* innermost environment, leaving the parameters bound before it as they are;
\* so after the prelude p_i is bound to a_i for every i.
C12_ArgumentsBoundPositionally ==
    [][(pc = "running" /\ steps' = steps + 1 /\ frames # <<>>)
         => \A fn \in PreludeFunctions(ip) :
               LET i == Len(stack) - Top(frames).stack_slot - 1
                   params == declared_params(fn.name)
                   scope == environments'[Len(environments')]
               IN  /\ Fetch.opcode = "OP_DEF_LOCAL"
                   /\ Len(params) = fn.arity
                   /\ i = fn.arity - (ip - fn.start_ip) + 1
                   /\ pc' = "running"
                   /\ Len(environments') = Len(environments)
                   /\ DOMAIN scope = {params[j] : j \in i..fn.arity}
                   /\ scope[params[i]].value = stack[Top(frames).stack_slot + 1 + i]
                   /\ \A j \in (i + 1)..fn.arity :
                         scope[params[j]] = environments[Len(environments)][params[j]]]_vars

\* f(1, 2, 3) of fn f(a, b, c) has run its prelude
C12_Witness ==
    /\ pc = "running"
    /\ program = P_args_order
    /\ frames # <<>>
    /\ environments # <<>>
    /\ LET scope == environments[Len(environments)]
       IN  /\ DOMAIN scope = {"a", "b", "c"}
           /\ scope["a"].value = IntV(1)
           /\ scope["b"].value = IntV(2)
           /\ scope["c"].value = IntV(3)

\* C13: a declaration writes the innermost environment only: OP_DEF_LOCAL and
\* OP_DEF_CONST_LOCAL leave every outer environment and the globals as they
\* are, and OP_EXIT_SCOPE removes the innermost environment and nothing else,
\* so the outer binding is read again after the block: `let x = 1; { let x =
\* 2; }` then x yields 1, and in P_shadow the outer x is still assignable
\* after an inner `const x`.
C13_DeclarationWritesInnermostOnly ==
    [][/\ (/\ pc = "running"
           /\ steps' = steps + 1
           /\ Fetch.opcode \in {"OP_DEF_LOCAL", "OP_DEF_CONST_LOCAL"})
            => (/\ Len(environments') = Len(environments)
                /\ \A k \in 1..(Len(environments) - 1) : environments'[k] = environments[k]
                /\ globals' = globals)
       /\ (pc = "running" /\ steps' = steps + 1 /\ Fetch.opcode = "OP_EXIT_SCOPE"
            /\ environments # <<>>)
            => environments' = Front(environments)
       /\ (pc' = "returned" /\ program = P_S2_return) => result' = Result_ok(IntV(1))
       /\ (pc' = "returned" /\ program = P_shadow) => result' = Result_ok(IntV(4))
       /\ (pc' = "running" /\ program = P_S2 /\ ip' = StatementEnd(P_S2, 3) - 1)
            => Top(stack') = IntV(1)]_vars

\* in `let x = 1; { let x = 2; }` the inner declaration has run: x is 2 in the
\* block's environment and still 1 in the main scope
C13_Witness ==
    /\ pc = "running"
    /\ program = P_S2
    /\ Len(environments) = 2
    /\ "x" \in DOMAIN environments[1]
    /\ "x" \in DOMAIN environments[2]
    /\ environments[1]["x"].value = IntV(1)
    /\ environments[2]["x"].value = IntV(2)

\* the environments that bind var_name, by their index in the environment stack
EnvironmentsWith(var_name) ==
    {k \in 1..Len(environments) : var_name \in DOMAIN environments[k]}

\* C14: OP_SET_LOCAL assigns in the innermost environment that has the name
\* and changes nothing else; when that binding is const, or no environment
\* has the name, interpret returns Err and every environment is unchanged:
\* `const k = 7; k = 8` is an error and k is still 7.
C14_SetLocalInnermostOrErr ==
    [][/\ (/\ pc = "running"
           /\ steps' = steps + 1
           /\ Fetch.opcode = "OP_SET_LOCAL"
           /\ stack # <<>>)
            => LET var_name == constants[operand + 1].s
                   having == EnvironmentsWith(var_name)
                   i == CHOOSE k \in having : \A j \in having : j <= k
               IN  IF having = {} \/ environments[i][var_name].is_const
                   THEN /\ pc' = "returned"
                        /\ is_err(result')
                        /\ environments' = environments
                        /\ globals' = globals
                   ELSE /\ pc' = "running"
                        /\ Len(environments') = Len(environments)
                        /\ \A k \in 1..Len(environments) :
                              k # i => environments'[k] = environments[k]
                        /\ DOMAIN environments'[i] = DOMAIN environments[i]
                        /\ \A n \in DOMAIN environments[i] :
                              n # var_name => environments'[i][n] = environments[i][n]
                        /\ environments'[i][var_name].value = Top(stack)
                        /\ globals' = globals
       /\ (pc' = "returned" /\ program \in {P_S6, P_const_outer})
            => (/\ is_err(result')
                /\ environments'[1]["k"] = Variable("k", IntV(7), TRUE))]_vars

\* `const k = 7; k = 8` has ended in an error with k still the constant 7
C14_Witness ==
    /\ pc = "returned"
    /\ program = P_S6
    /\ is_err(result)
    /\ result.err_val.msg = "Cannot Assign const local variable"
    /\ environments[1]["k"] = Variable("k", IntV(7), TRUE)

\* C15: OP_GET_LOCAL pushes the value the innermost environment that has the
\* name binds to it; when no environment has the name interpret returns Err,
\* whether or not the globals have a binding of that name.
C15_GetLocalInnermostNoGlobals ==
    [][(pc = "running" /\ steps' = steps + 1 /\ Fetch.opcode = "OP_GET_LOCAL")
         => LET var_name == constants[operand + 1].s
                having == EnvironmentsWith(var_name)
                i == CHOOSE k \in having : \A j \in having : j <= k
            IN  IF having = {}
                THEN /\ pc' = "returned"
                     /\ is_err(result')
                     /\ stack' = stack
                ELSE /\ pc' = "running"
                     /\ ip' = ip + 1
                     /\ stack' = Append(stack, environments[i][var_name].value)]_vars

\* OP_GET_LOCAL g has failed while the globals bind g
C15_Witness ==
    /\ pc = "returned"
    /\ is_err(result)
    /\ result.err_val.msg = "Undefined local variable"
    /\ bytecode_chunk[ip].opcode = "OP_GET_LOCAL"
    /\ constants[bytecode_chunk[ip].operand + 1] = StrV("g")
    /\ "g" \in DOMAIN globals
    /\ environments # <<>>

\* C16: OP_ITER_NEW succeeds only for a List or a Range: on a String, Int,
\* Float, Bool, None, Function or KwArgs operand interpret returns Err and no
\* iterator is pushed.
C16_OnlyListAndRangeIterable ==
    [][(/\ pc = "running"
        /\ steps' = steps + 1
        /\ Fetch.opcode = "OP_ITER_NEW"
        /\ stack # <<>>
        /\ Top(stack).t \in {"Str", "Int", "Float", "Bool", "None", "Fn", "KwArgs"})
         => (/\ pc' = "returned"
             /\ is_err(result')
             /\ \A k \in 1..Len(stack') : stack'[k].t # "Iter")]_vars

\* what next(v) would do in heap h: yield an element, or raise StopIteration
HasNext(h, v) == v.t = "Iter" /\ PyNext(h, v).exc = ""
NoNext(h, v) == v.t = "Iter" /\ PyNext(h, v).exc = "StopIteration"

\* the iterator at ref has raised StopIteration (a list iterator has then
\* dropped its list; the other iterators run over values that never change)
Exhausted(h, ref) ==
    /\ h[ref].k \in {"list_iterator", "str_iterator", "range_iterator", "dict_keyiterator"}
    /\ IF h[ref].k = "list_iterator" THEN h[ref].src = 0 ELSE NoNext(h, IterV(ref))

\* C17: OP_ITER_NEXT_OR_JUMP(J) with an iterator on top that has a next
\* element leaves the iterator where it is, pushes the element and falls
\* through; with an iterator that has none it pops the iterator and goes to J,
\* and the iterator is exhausted from then on; with anything else on top
\* interpret returns Err.  No step makes an exhausted iterator yield again.
C17_IteratorStateMachine ==
    [][/\ (/\ pc = "running"
           /\ steps' = steps + 1
           /\ Fetch.opcode = "OP_ITER_NEXT_OR_JUMP"
           /\ stack # <<>>)
            => LET iterator == Top(stack)
               IN  /\ HasNext(heap, iterator)
                        => (/\ pc' = "running"
                            /\ ip' = ip + 1
                            /\ stack' = Append(stack, PyNext(heap, iterator).v))
                   /\ NoNext(heap, iterator)
                        => (/\ pc' = "running"
                            /\ ip' = operand
                            /\ stack' = Front(stack)
                            /\ Exhausted(heap', iterator.ref))
                   /\ iterator.t # "Iter"
                        => (pc' = "returned" /\ is_err(result'))
       /\ \A ref \in 1..Len(heap) :
             Exhausted(heap, ref) => (Exhausted(heap', ref) /\ NoNext(heap', IterV(ref)))]_vars

\* the iterator of a list has been exhausted, the list has then grown, and the
\* iterator, asked again, has taken the jump
C17_Witness ==
    /\ pc = "returned"
    /\ bytecode_chunk = K_next_exhausted.bytecode_chunk
    /\ result = Result_ok(StrV("l"))
    /\ \E ref \in 1..Len(heap) : heap[ref].k = "list" /\ Len(heap[ref].items) = 2
    /\ \E ref \in 1..Len(heap) : Exhausted(heap, ref)

JumpOpcodes == {"OP_JUMP", "OP_JUMP_IF_FALSE", "OP_ITER_NEXT_OR_JUMP"}

\* the opcodes whose operand is an index into the constants table
ConstantOpcodes ==
    {"OP_CONST", "OP_DEF_GLOBAL", "OP_DEF_CONST_GLOBAL", "OP_GET_GLOBAL", "OP_SET_GLOBAL",
     "OP_DEF_LOCAL", "OP_DEF_CONST_LOCAL", "OP_GET_LOCAL", "OP_SET_LOCAL", "OP_GET_ATTR"}

WellFormed(chunk, consts) ==
    \A i \in 1..Len(chunk) :
        /\ chunk[i].opcode \in JumpOpcodes =>
              /\ chunk[i].operand # Placeholder
              /\ 0 <= chunk[i].operand
              /\ chunk[i].operand < Len(chunk)
        /\ chunk[i].opcode \in ConstantOpcodes =>
              /\ 0 <= chunk[i].operand
              /\ chunk[i].operand < Len(consts)

\* C19: every chunk Compiler.compile returns is well formed: each operand of
\* JUMP, JUMP_IF_FALSE and ITER_NEXT_OR_JUMP is an instruction index of the
\* chunk and not the placeholder, and each constant-index operand is an index
\* of the constants table.
C19_CompiledChunkWellFormed ==
    pc = "compiled" => WellFormed(compiler.bytecode_chunk, compiler.constants)

\* a for loop with an if and a break compiled: the exhaustion jump leads to the
\* OP_EXIT_SCOPE after the loop, the if jumps forward, the break jumps to the
\* OP_POP of the iterator
C19_Witness ==
    /\ pc = "compiled"
    /\ program = P_for_break_if
    /\ \E i, j, k \in 1..Len(compiler.bytecode_chunk) :
          /\ compiler.bytecode_chunk[i].opcode = "OP_ITER_NEXT_OR_JUMP"
          /\ compiler.bytecode_chunk[compiler.bytecode_chunk[i].operand + 1].opcode
                = "OP_EXIT_SCOPE"
          /\ compiler.bytecode_chunk[j].opcode = "OP_JUMP_IF_FALSE"
          /\ compiler.bytecode_chunk[j].operand > j
          /\ compiler.bytecode_chunk[k].opcode = "OP_JUMP"
          /\ compiler.bytecode_chunk[k].operand > k
          /\ compiler.bytecode_chunk[compiler.bytecode_chunk[k].operand + 1].opcode
                = "OP_POP"

\* values given to add_constant besides the entries of the table itself
ConstantValues ==
    {NoneV, IntV(0), IntV(1), FloatV(1, 1), FloatV(1, 2), StrV("a"), StrV("zz"),
     NameListV(<<"a">>)}

\* first is the object after add_constant(value) on self, i the index that call
\* returned, second the object after the same call again
IdempotentAt(self, value, first, i, second) ==
    /\ ConstIndex(second.constants, value) = i
    /\ second.constants = first.constants
    /\ first.constants[i + 1] = value
    /\ \A j \in 1..i : first.constants[j] # value
    /\ Len(first.constants) > Len(self.constants) =>
          \A j \in DOMAIN self.constants : self.constants[j] # value

\* C20: add_constant is idempotent: a second call with a structurally equal
\* value returns the index the first returned and leaves the constants table
\* as it was; the index is that of the first entry equal to the value, and an
\* entry is appended only when there was none.
C20_AddConstantIdempotent ==
    pc = "compiled" =>
        \A value \in ConstantValues \cup {compiler.constants[k] : k \in DOMAIN compiler.constants} :
            IdempotentAt(compiler, value,
                         add_constant(compiler, value),
                         ConstIndex(add_constant(compiler, value).constants, value),
                         add_constant(add_constant(compiler, value), value))

\* a break or continue in node that no loop of the program encloses; in_loop
\* tells whether a loop encloses node
RECURSIVE HasLooseJump(_, _)
HasLooseJump(node, in_loop) ==
    IF node.type \in {"BreakStmt", "ContinueStmt"} THEN ~in_loop
    ELSE \E i \in 1..Len(Children(node)) :
            HasLooseJump(Children(node)[i],
                         in_loop \/ node.type \in {"WhileStmt", "ForInStmt"})

\* patch lists of the loops that enclose the statement being compiled,
\* outermost first
OuterPatches == {<<>>, << <<>> >>, << <<3>> >>, << <<3>>, <<>> >>, << <<3, 5>>, <<7>> >>}

\* the compiler inside loops whose patch lists are starts and ends
InLoops(self, starts, ends) ==
    [self EXCEPT !.loop_level = Len(starts), !.loop_start_patches = starts,
                 !.loop_end_patches = ends]

\* after is the compiler that compiled a break or continue in before: one
\* OP_JUMP with the placeholder was emitted, and its index was appended to
\* the last of the lists and to no other
RecordedInnermost(before, after, lists_before, lists_after) ==
    /\ after.error = ""
    /\ after.bytecode_chunk =
          Append(before.bytecode_chunk, Instruction("OP_JUMP", Placeholder))
    /\ lists_after = [lists_before EXCEPT ![Len(lists_before)] =
                         Append(@, Len(before.bytecode_chunk))]

\* the operands of the OP_JUMPs from instruction index from on
JumpTargetsFrom(chunk, from) ==
    {chunk[i].operand : i \in {j \in from + 1..Len(chunk) : chunk[j].opcode = "OP_JUMP"}}

\* the index of the instruction with the opcode from instruction index from on
IndexOfFrom(chunk, opcode, from) ==
    First({j \in from + 1..Len(chunk) : chunk[j].opcode = opcode}) - 1

\* after is the compiler that compiled, in before, a loop whose body is
\* { break continue }: the lists of the enclosing loops are as they were, the
\* code emitted before is as it was, and the jumps of the loop lead to
\* continue_ip and break_ip of this loop
InnerLoopKeepsItsJumps(before, after, continue_ip, break_ip) ==
    /\ after.error = ""
    /\ after.loop_level = before.loop_level
    /\ after.loop_start_patches = before.loop_start_patches
    /\ after.loop_end_patches = before.loop_end_patches
    /\ SubSeq(after.bytecode_chunk, 1, Len(before.bytecode_chunk)) = before.bytecode_chunk
    /\ JumpTargetsFrom(after.bytecode_chunk, Len(before.bytecode_chunk))
          = {continue_ip, break_ip}

BreakContinueBody == Block(<<BreakStmt, ContinueStmt>>, TRUE)

\* C21: a break or continue that no loop encloses is a compile-time error and
\* no chunk is returned; inside loops the OP_JUMP emitted is recorded in the
\* patch list of the innermost enclosing loop only and so gets the target of
\* that loop, never that of an outer loop.
C21_BreakContinueInnermostLoop ==
    /\ pc = "compiled" => ~HasLooseJump(program, FALSE)
    /\ pc = "compile_error" => bytecode_chunk = <<>> /\ ~ENABLED Interpret
    /\ (pc = "compile_error" /\ program \in {P_break_outside, P_break_in_fn, P_break_after_loop})
          => compiler.error = "CompileError: 'break' outside loop"
    /\ (pc = "compile_error" /\ program \in {P_continue_outside, P_continue_in_if})
          => compiler.error = "CompileError: 'continue' outside loop"
    /\ pc = "compiled" =>
          \A starts, ends \in OuterPatches :
              Len(starts) = Len(ends) =>
                  IF starts = <<>>
                  THEN /\ visit_BreakStmt(InLoops(compiler, starts, ends), BreakStmt).error
                             = "CompileError: 'break' outside loop"
                       /\ visit_ContinueStmt(InLoops(compiler, starts, ends), ContinueStmt).error
                             = "CompileError: 'continue' outside loop"
                  ELSE /\ RecordedInnermost(
                              InLoops(compiler, starts, ends),
                              visit_BreakStmt(InLoops(compiler, starts, ends), BreakStmt),
                              ends,
                              visit_BreakStmt(InLoops(compiler, starts, ends), BreakStmt)
                                 .loop_end_patches)
                       /\ visit_BreakStmt(InLoops(compiler, starts, ends), BreakStmt)
                             .loop_start_patches = starts
                       /\ RecordedInnermost(
                              InLoops(compiler, starts, ends),
                              visit_ContinueStmt(InLoops(compiler, starts, ends), ContinueStmt),
                              starts,
                              visit_ContinueStmt(InLoops(compiler, starts, ends), ContinueStmt)
                                 .loop_start_patches)
                       /\ visit_ContinueStmt(InLoops(compiler, starts, ends), ContinueStmt)
                             .loop_end_patches = ends
                       /\ InnerLoopKeepsItsJumps(
                              InLoops(compiler, starts, ends),
                              visit_WhileStmt(InLoops(compiler, starts, ends),
                                              WhileStmt(Boolean(TRUE), BreakContinueBody)),
                              Len(compiler.bytecode_chunk),
                              Len(visit_WhileStmt(InLoops(compiler, starts, ends),
                                      WhileStmt(Boolean(TRUE), BreakContinueBody)).bytecode_chunk))
                       /\ InnerLoopKeepsItsJumps(
                              InLoops(compiler, starts, ends),
                              visit_ForInStmt(InLoops(compiler, starts, ends),
                                              ForInStmt("v", ArrayLiteral(<<>>), BreakContinueBody)),
                              IndexOfFrom(
                                  visit_ForInStmt(InLoops(compiler, starts, ends),
                                      ForInStmt("v", ArrayLiteral(<<>>), BreakContinueBody))
                                     .bytecode_chunk,
                                  "OP_ITER_NEXT_OR_JUMP", Len(compiler.bytecode_chunk)),
                              IndexOfFrom(
                                  visit_ForInStmt(InLoops(compiler, starts, ends),
                                      ForInStmt("v", ArrayLiteral(<<>>), BreakContinueBody))
                                     .bytecode_chunk,
                                  "OP_POP", Len(compiler.bytecode_chunk)))
    /\ (pc = "returned" /\ program \in {P_nested_break, P_nested_while_break})
          => result = Result_ok(IntV(2))
    /\ (pc = "returned" /\ program \in {P_nested_continue, P_break_after_inner})
          => result = Result_ok(IntV(4))
    /\ (pc = "returned" /\ program = P_continue_after_inner) => result = Result_ok(IntV(2))

\* the two loops of P_nested_break ran to the end: the break left the inner
\* loop only
C21_Witness ==
    /\ pc = "returned"
    /\ program = P_nested_break
    /\ result = Result_ok(IntV(2))

\* the operand pairs OP_ADD is defined for: two numbers (Int or Float), two
\* Strings, two Lists
Addable(left, right) ==
    \/ left.t \in {"Int", "Float"} /\ right.t \in {"Int", "Float"}
    \/ left.t = "Str" /\ right.t = "Str"
    \/ left.t = "List" /\ right.t = "List"

\* C22: OP_ADD succeeds exactly for number + number, String + String and
\* List + List; for every other pair of operands interpret returns a runtime
\* type error.
C22_AddDefinedOnThreePairs ==
    [][(/\ pc = "running"
        /\ steps' = steps + 1
        /\ Fetch.opcode = "OP_ADD"
        /\ Len(stack) >= 2)
         => IF Addable(stack[Len(stack) - 1], stack[Len(stack)])
            THEN pc' = "running" /\ Len(stack') = Len(stack) - 1
            ELSE /\ pc' = "returned"
                 /\ is_err(result')
                 /\ result'.err_val.msg = "Unsupported operand types for +"]_vars

\* the number of operands an arithmetic opcode pops
ArithmeticOperands(opcode) == IF opcode = "OP_NEGATE" THEN 1 ELSE 2

ArithmeticOpcodes == {"OP_SUBTRACT", "OP_MULTIPLY", "OP_DIVIDE", "OP_MODULO", "OP_NEGATE"}

\* one of the topmost n values of the stack is not an Int or a Float
NonNumericOperand(s, n) ==
    \E k \in 0..n - 1 : s[Len(s) - k].t \notin {"Int", "Float"}

\* C23: OP_SUBTRACT, OP_MULTIPLY, OP_DIVIDE, OP_MODULO and OP_NEGATE require
\* numeric operands: when an operand is not an Int or a Float the instruction
\* pushes no result and interpret returns a runtime type error.
C23_ArithmeticRequiresNumbers ==
    [][(/\ pc = "running"
        /\ steps' = steps + 1
        /\ Fetch.opcode \in ArithmeticOpcodes
        /\ Len(stack) >= ArithmeticOperands(Fetch.opcode)
        /\ NonNumericOperand(stack, ArithmeticOperands(Fetch.opcode)))
         => /\ pc' = "returned"
            /\ is_err(result')
            /\ Len(stack') = Len(stack) - ArithmeticOperands(Fetch.opcode)]_vars

\* C24: OP_DIVIDE and OP_MODULO with a right operand equal to zero and a
\* numeric left operand make interpret return Err (division / modulo by zero)
\* and push no result.
C24_DivisionByZeroIsErr ==
    [][(/\ pc = "running"
        /\ steps' = steps + 1
        /\ Fetch.opcode \in {"OP_DIVIDE", "OP_MODULO"}
        /\ Len(stack) >= 2
        /\ stack[Len(stack) - 1].t \in {"Int", "Float"}
        /\ stack[Len(stack)].t \in {"Int", "Float"}
        /\ NumN(stack[Len(stack)]) = 0)
         => /\ pc' = "returned"
            /\ is_err(result')
            /\ result'.err_val.msg =
                  (IF Fetch.opcode = "OP_DIVIDE" THEN "Division by zero." ELSE "Modulo by zero.")
            /\ stack' = Drop(stack, 2)]_vars

\* 7.5 % 0.0 has been rejected
C24_Witness ==
    /\ pc = "returned"
    /\ program = P_mod_float_zero
    /\ is_err(result)
    /\ result.err_val.msg = "Modulo by zero."
    /\ bytecode_chunk[ip].opcode = "OP_MODULO"

\* the run is over: Halted(value) is pc = "returned" with an Ok result,
\* Faulted(error) is pc = "returned" with an Err result or an exception that
\* left interpret
Ended == pc \in {"returned", "raised"}

\* C25: a run goes from Running to Halted(value) or Faulted(error) and both are
\* absorbing: after an instruction has produced a runtime error no instruction
\* is fetched and no VM state changes; and the run ends only by an OP_RETURN
\* executed with an empty frame stack, by OP_HALT, or by an error.
C25_RunEndsByReturnHaltOrError ==
    [][/\ Ended => UNCHANGED vars
       /\ (pc = "running" /\ pc' # "running") =>
             /\ pc' \in {"returned", "raised"}
             /\ \/ pc' = "raised"
                \/ is_err(result')
                \/ /\ 0 <= ip /\ ip < Len(bytecode_chunk)
                   /\ steps' = steps + 1
                   /\ \/ Fetch.opcode = "OP_RETURN" /\ frames = <<>>
                      \/ Fetch.opcode = "OP_HALT"]_vars

\* the instructions _initialize_builtins emits: OP_CONST and OP_DEF_GLOBAL for
\* each entry of the registry
PreludeLen == Len(BUILTINS) + Len(BUILTINS)

\* the globals map that binds every registry name to its native Function
NativeGlobals ==
    [name \in BuiltinNames |->
        Variable(name, BUILTINS[First({i \in 1..Len(BUILTINS) : BUILTINS[i].name = name})],
                 FALSE)]

GlobalWriters == {"OP_DEF_GLOBAL", "OP_DEF_CONST_GLOBAL", "OP_SET_GLOBAL"}

\* the depths the compiler is at when it compiles a read of a variable
ScopeDepths == 0..3

\* C26: the natives are materialized before user code and stay reachable: when
\* the first user instruction executes, globals binds every registry name to
\* its native Function; no instruction compiled from user code writes globals;
\* a read of a registry name compiles to OP_GET_GLOBAL at every scope depth,
\* inside function bodies too, and yields the native Function.
C26_NativesStayReachable ==
    [][/\ (pc = "running" /\ program # NoNode /\ steps >= PreludeLen)
             => /\ globals = NativeGlobals
                /\ globals' = globals
                /\ ip >= PreludeLen
       /\ (pc = "running" /\ program # NoNode /\ steps = PreludeLen)
             => ip = PreludeLen
       /\ (pc = "compiled")
             => /\ \A i \in PreludeLen + 1..Len(compiler.bytecode_chunk) :
                      /\ compiler.bytecode_chunk[i].opcode \notin GlobalWriters
                      /\ compiler.bytecode_chunk[i].opcode = "OP_GET_LOCAL"
                            => compiler.constants[compiler.bytecode_chunk[i].operand + 1].s
                                  \notin BuiltinNames
                /\ \A d \in ScopeDepths : \A name \in BuiltinNames :
                      visit_VariableExpr([compiler EXCEPT !.scope_depth = d],
                                         VariableExpr(name)).bytecode_chunk
                         = Append(compiler.bytecode_chunk,
                                  Instruction("OP_GET_GLOBAL",
                                              ConstIndex(compiler.constants, StrV(name))))
       /\ (/\ pc = "running"
           /\ program # NoNode
           /\ steps' = steps + 1
           /\ steps >= PreludeLen
           /\ Fetch.opcode = "OP_GET_GLOBAL"
           /\ constants[operand + 1].s \in BuiltinNames)
             => /\ pc' = "running"
                /\ stack' = Append(stack, NativeGlobals[constants[operand + 1].s].value)
                /\ stack'[Len(stack')].native_fn # ""]_vars

\* len read inside the body of f, where a frame and the parameter scope are
\* active, has yielded the native
C26_Witness ==
    /\ pc = "running"
    /\ program = P_native_in_fn
    /\ frames # <<>>
    /\ stack # <<>>
    /\ Top(stack) = NativeGlobals["len"].value
    /\ bytecode_chunk[ip].opcode = "OP_GET_GLOBAL"

RECURSIVE Factorial(_)
Factorial(n) == IF n <= 1 THEN 1 ELSE n * Factorial(n - 1)

\* the programs whose functions call themselves
RecursivePrograms ==
    {P_S5, P_S5_return, P_rec_fib, P_rec_assign, P_rec_operands, P_rec_two_params}

\* the value the innermost binding of var_name holds
BoundValue(envs, var_name) == envs[Lookup(envs, var_name)][var_name].value

\* the bindings that the environments up to depth have for the names of the
\* parameter scope of the running invocation (the environment depth + 1) are
\* in envs_after what they are in envs
OuterBindingsKept(envs, envs_after, depth) ==
    Len(envs) > depth =>
        \A k \in 1..Min(depth, Len(envs_after)) :
            \A x \in DOMAIN envs[k] \cap DOMAIN envs[depth + 1] :
                x \in DOMAIN envs_after[k] /\ envs_after[k][x] = envs[k][x]

\* C27: recursive invocations are isolated: each invocation of a user function
\* binds its parameters in a fresh environment, and when an inner invocation
\* returns, the parameter bindings of the outer invocation and the operands it
\* had pushed are as they were; fact(5) is 120.
C27_RecursiveInvocationsIsolated ==
    [][/\ (/\ pc = "running"
           /\ steps' = steps + 1
           /\ Fetch.opcode = "OP_CALL"
           /\ frames' # frames)
             => /\ frames' = Append(frames, CallFrame(ip + 1, Len(stack) - operand - 1,
                                                      Len(environments)))
                /\ environments' = environments
                /\ stack' = stack
                /\ ip' \in FunctionStarts
                /\ bytecode_chunk[ip' + 1].opcode = "OP_ENTER_SCOPE"
       /\ (/\ pc = "running"
           /\ steps' = steps + 1
           /\ ip \in FunctionStarts)
             => environments' = Append(environments, EmptyDict)
       /\ (/\ pc = "running"
           /\ steps' = steps + 1
           /\ program \in RecursivePrograms
           /\ frames # <<>>
           /\ frames' = frames)
             => /\ OuterBindingsKept(environments, environments', Top(frames).env_depth)
                /\ Len(stack') >= Top(frames).stack_slot
                /\ SubSeq(stack', 1, Top(frames).stack_slot)
                      = SubSeq(stack, 1, Top(frames).stack_slot)
                /\ Len(environments') >= Top(frames).env_depth
       /\ (/\ pc = "running"
           /\ steps' = steps + 1
           /\ program \in RecursivePrograms
           /\ Fetch.opcode = "OP_RETURN"
           /\ frames # <<>>)
             => /\ frames' = Drop(frames, 1)
                /\ ip' = Top(frames).return_ip
                /\ environments' = SubSeq(environments, 1, Top(frames).env_depth)
                /\ stack' = Append(SubSeq(stack, 1, Top(frames).stack_slot), Top(stack))
       /\ (/\ pc = "running"
           /\ program \in {P_S5, P_S5_return}
           /\ Fetch.opcode = "OP_MULTIPLY")
             => /\ stack[Len(stack) - 1] = BoundValue(environments, "n")
                /\ Top(stack) = IntV(Factorial(BoundValue(environments, "n").i - 1))
       /\ (/\ pc = "running"
           /\ program \in {P_S5, P_S5_return}
           /\ frames = <<>>
           /\ ip > 0
           /\ bytecode_chunk[ip].opcode = "OP_CALL")
             => Top(stack) = IntV(Factorial(5))
       /\ (pc' = "returned" /\ program = P_S5_return) => result' = Result_ok(IntV(120))
       /\ (pc' = "returned" /\ program = P_rec_fib) => result' = Result_ok(IntV(3))
       /\ (pc' = "returned" /\ program \in {P_rec_assign, P_rec_operands})
             => result' = Result_ok(IntV(12))]_vars

\* fact(2) has returned 2 into the invocation fact(3): n is 3 there, and the 3
\* pushed before the call is under the 2
C27_Witness ==
    /\ pc = "running"
    /\ program = P_S5_return
    /\ Len(frames) = 3
    /\ Fetch.opcode = "OP_MULTIPLY"
    /\ BoundValue(environments, "n") = IntV(3)
    /\ SubSeq(stack, Len(stack) - 1, Len(stack)) = <<IntV(3), IntV(2)>>

\* C28: OP_INDEX_SET on a List with an in-range index replaces the element at
\* that index and no other, keeps the length, and pushes the assigned value;
\* on a collection that is not a List, or with an index out of range, it
\* returns Err and the collection is unchanged.
C28_IndexSetReplacesOneElement ==
    [][(/\ pc = "running"
        /\ steps' = steps + 1
        /\ Fetch.opcode = "OP_INDEX_SET"
        /\ Len(stack) >= 3)
         => LET value == stack[Len(stack)]
                index == stack[Len(stack) - 1]
                collection == stack[Len(stack) - 2]
            IN  IF /\ collection.t = "List"
                   /\ index.t = "Int"
                   /\ 0 <= index.i
                   /\ index.i < Len(heap[collection.ref].items)
                THEN /\ pc' = "running"
                     /\ stack' = Append(Drop(stack, 3), value)
                     /\ heap' = [heap EXCEPT ![collection.ref].items[index.i + 1] = value]
                ELSE (collection.t # "List" \/ index.t = "Int")
                        => /\ pc' = "returned"
                           /\ is_err(result')
                           /\ heap' = heap]_vars

\* C29: OP_CALL_KW on a user function or a registry native returns Err, pushes
\* no frame and leaves ip behind the instruction; on a host callable it takes
\* the kwargs mapping, the N_pos arguments and the callee off the stack and
\* pushes exactly one result in their place, or the callable's own exception
\* becomes the Err.
C29_OnlyHostCallablesTakeKeywords ==
    [][(/\ pc = "running"
        /\ steps' = steps + 1
        /\ Fetch.opcode = "OP_CALL_KW"
        /\ Len(stack) >= operand + 2)
         => LET callee == stack[Len(stack) - operand - 1]
                rest == Drop(stack, operand + 2)
            IN  /\ frames' = frames
                /\ ip' = ip + 1
                /\ callee.t = "Fn"
                    => (/\ pc' = "returned"
                        /\ is_err(result')
                        /\ result'.err_val.msg = "Error in function call with kwargs"
                        /\ heap' = heap)
                /\ IsHostCallable(callee)
                    => \/ /\ pc' = "running"
                          /\ Len(stack') = Len(rest) + 1
                          /\ Drop(stack', 1) = rest
                       \/ /\ pc' = "returned"
                          /\ is_err(result')
                          /\ result'.err_val.msg = "Error in function call with kwargs"
                          /\ stack' = rest]_vars

\* l.sort(reverse=true) has sorted [2, 1, 3] downwards and left None where the
\* method, and the mapping of its keyword, stood
C29_Witness ==
    /\ pc = "running"
    /\ program = P_kw_sort_reverse
    /\ ip > 0
    /\ bytecode_chunk[ip].opcode = "OP_CALL_KW"
    /\ bytecode_chunk[ip].operand_kw = 1
    /\ stack = <<NoneV>>
    /\ \E ref \in 1..Len(heap) : heap[ref].items = <<IntV(3), IntV(2), IntV(1)>>

\* f(a=1) on a user function f has ended the run with an Err, inside a call
\* of another function: one frame, that of the caller
C29_KeywordCallOfFunctionRejected ==
    /\ pc = "returned"
    /\ program = P_kw_user_in_fn
    /\ is_err(result)
    /\ result.err_val.msg = "Error in function call with kwargs"
    /\ Len(frames) = 1
    /\ bytecode_chunk[ip].opcode = "OP_CALL_KW"

\* C30: a runtime error that the VM returns for the instruction at index ip
\* carries the token that the compiler's token_map records for ip, whenever
\* the map has an entry for ip.
C30_ErrorCarriesMappedToken ==
    [][(/\ pc = "running"
        /\ pc' = "returned"
        /\ is_err(result')
        /\ ip \in DOMAIN compiler.token_map)
         => result'.err_val.tok = compiler.token_map[ip]]_vars

\* C31: compile(p) on a Compiler that has compiled other programs, or whose
\* last compilation raised (inside a loop as well), gives what compile(p)
\* gives on a fresh Compiler: the same instructions and constants, or the
\* same error.
C31_CompileIsStateFree ==
    [][LET fresh == compile(_initialize_builtins(Compiler), program')
       IN  /\ compiler'.error = fresh.error
           /\ compiler'.bytecode_chunk = fresh.bytecode_chunk
           /\ compiler'.constants = fresh.constants]_vars

\* `break` alone has been rejected by a Compiler whose compilation before
\* raised inside the body of a while loop
C31_Witness ==
    /\ pc = "compile_error"
    /\ program = P_break_outside
    /\ compiler.error = "CompileError: 'break' outside loop"
    /\ compile(compiler, A_abort_in_while).loop_level = 1
    /\ compile(compile(compiler, A_abort_in_while), P_S3).error = ""

\* instruction i was emitted for a node of the type: token_map[i] is the
\* token of such a node
EmittedFor(i, type) ==
    i \in DOMAIN compiler.token_map /\ compiler.token_map[i] = Token(type)

\* instruction i is the exit jump of a loop: the OP_JUMP_IF_FALSE of a while
\* statement or the OP_ITER_NEXT_OR_JUMP of a for-in statement
IsLoopHead(i) ==
    \/ bytecode_chunk[i + 1].opcode = "OP_JUMP_IF_FALSE" /\ EmittedFor(i, "WhileStmt")
    \/ bytecode_chunk[i + 1].opcode = "OP_ITER_NEXT_OR_JUMP"

\* instruction i is the jump back of a loop
IsLoopTail(i) ==
    /\ bytecode_chunk[i + 1].opcode = "OP_JUMP"
    /\ EmittedFor(i, "WhileStmt") \/ EmittedFor(i, "ForInStmt")

\* as many loops begin as end among the instructions from..to
LoopsBalanced(from, to) ==
    Cardinality({j \in from..to : IsLoopHead(j)})
        = Cardinality({j \in from..to : IsLoopTail(j)})

\* the exit jump of the innermost loop whose body holds instruction i, -1
\* when no loop does
LoopHeadOf(i) ==
    LET heads == {h \in 0..i - 1 : IsLoopHead(h) /\ LoopsBalanced(h + 1, i - 1)}
    IN  IF heads = {} THEN -1 ELSE CHOOSE h \in heads : \A g \in heads : g <= h

\* the jump back of the innermost loop whose body holds instruction i
LoopTailOf(i) ==
    First({t \in i + 1..Len(bytecode_chunk) - 1 :
              IsLoopTail(t) /\ LoopsBalanced(i + 1, t - 1)})

\* instruction i is in the body of a while loop and in no for-in loop
\* inside of it
InWhileBody(i) ==
    /\ LoopHeadOf(i) # -1
    /\ bytecode_chunk[LoopHeadOf(i) + 1].opcode = "OP_JUMP_IF_FALSE"

\* the while statements in node, in the order the compiler meets them
RECURSIVE WhileNodes(_)
RECURSIVE WhileNodesIn(_, _)
WhileNodes(node) ==
    (IF node.type = "WhileStmt" THEN <<node>> ELSE <<>>)
        \o WhileNodesIn(Children(node), 1)

WhileNodesIn(nodes, i) ==
    IF i > Len(nodes) THEN <<>>
    ELSE WhileNodes(nodes[i]) \o WhileNodesIn(nodes, i + 1)

\* the while statement whose OP_JUMP_IF_FALSE is instruction head
WhileNodeAt(head) ==
    WhileNodes(program)[Cardinality({j \in 0..head :
        bytecode_chunk[j + 1].opcode = "OP_JUMP_IF_FALSE" /\ EmittedFor(j, "WhileStmt")})]

\* the instructions the compiler emits for node inside a scope, where the
\* code of every statement of a program is
CodeOf(node) ==
    SubSeq(_compile_node([compiler EXCEPT !.scope_depth = 1], node).bytecode_chunk,
           Len(compiler.bytecode_chunk) + 1,
           Len(_compile_node([compiler EXCEPT !.scope_depth = 1], node).bytecode_chunk))

\* the first instruction of the condition of the while loop whose
\* OP_JUMP_IF_FALSE is instruction head
LoopStartOf(head) == head - Len(CodeOf(WhileNodeAt(head).condition))

\* the instructions from loop_start_ip up to head are the code of the
\* condition of the loop
ConditionAt(loop_start_ip, head) ==
    \A j \in 1..head - loop_start_ip :
        bytecode_chunk[loop_start_ip + j].opcode
            = CodeOf(WhileNodeAt(head).condition)[j].opcode

\* C32: in a while loop, break goes to the instruction right after the jump
\* back of the innermost loop around it, which is the target of that loop's
\* OP_JUMP_IF_FALSE, and continue goes to the first instruction of the
\* condition of that loop, which runs again; the loop of P_S3 is left by the
\* break when i is 3.
C32_WhileBreakContinue ==
    [][(/\ pc = "running"
        /\ steps' = steps + 1
        /\ ip < Len(bytecode_chunk)
        /\ Fetch.opcode = "OP_JUMP"
        /\ InWhileBody(ip))
         => /\ EmittedFor(ip, "BreakStmt") =>
                  /\ pc' = "running"
                  /\ IsLoopTail(LoopTailOf(ip))
                  /\ EmittedFor(LoopTailOf(ip), "WhileStmt")
                  /\ ip' = LoopTailOf(ip) + 1
                  /\ ip' = bytecode_chunk[LoopHeadOf(ip) + 1].operand
                  /\ program = P_S3 =>
                        environments'[Lookup(environments', "i")]["i"].value = IntV(3)
            /\ EmittedFor(ip, "ContinueStmt") =>
                  /\ pc' = "running"
                  /\ ip' = LoopStartOf(LoopHeadOf(ip))
                  /\ ConditionAt(ip', LoopHeadOf(ip))
                  /\ bytecode_chunk[LoopTailOf(ip) + 1].operand = ip']_vars

\* the loop of P_S3 has been left with i = 3, at the target of its
\* OP_JUMP_IF_FALSE, while i < 10 still held: the break was taken
C32_Witness ==
    /\ pc = "running"
    /\ program = P_S3
    /\ \E head \in 0..Len(bytecode_chunk) - 1 :
          /\ bytecode_chunk[head + 1].opcode = "OP_JUMP_IF_FALSE"
          /\ EmittedFor(head, "WhileStmt")
          /\ ip = bytecode_chunk[head + 1].operand
    /\ Lookup(environments, "i") # 0
    /\ environments[Lookup(environments, "i")]["i"].value = IntV(3)

\* instruction i is in the body of a for-in loop and in no while loop inside
\* of it
InForBody(i) ==
    /\ LoopHeadOf(i) # -1
    /\ bytecode_chunk[LoopHeadOf(i) + 1].opcode = "OP_ITER_NEXT_OR_JUMP"

\* instruction i is the OP_POP of the break handler of a for-in loop
IsBreakHandler(i) ==
    bytecode_chunk[i + 1].opcode = "OP_POP" /\ EmittedFor(i, "ForInStmt")

\* an iterator is on top of the operand stack s
IteratorOnTop(s) == s # <<>> /\ Top(s).t = "Iter"

\* C33: a for-in loop takes its iterator off the operand stack once on every
\* exit. On exhaustion OP_ITER_NEXT_OR_JUMP pops the iterator and jumps past
\* the OP_POP of the break handler; a break goes to the break handler, whose
\* OP_POP takes the iterator off; a continue goes to the OP_ITER_NEXT_OR_JUMP
\* with the iterator on top of the stack.
C33_ForInPopsIteratorOnce ==
    [][(/\ pc = "running"
        /\ steps' = steps + 1
        /\ ip < Len(bytecode_chunk))
         => /\ (Fetch.opcode = "OP_ITER_NEXT_OR_JUMP" /\ EmittedFor(ip, "ForInStmt")) =>
                  /\ pc' = "running"
                  /\ IteratorOnTop(stack)
                  /\ ip' # ip + 1 =>
                        /\ stack' = Drop(stack, 1)
                        /\ IsBreakHandler(ip' - 1)
                        /\ ~IteratorOnTop(stack') \/ Top(stack') # Top(stack)
            /\ (Fetch.opcode = "OP_JUMP" /\ InForBody(ip) /\ EmittedFor(ip, "BreakStmt")) =>
                  /\ ip' = LoopTailOf(ip) + 1
                  /\ IsBreakHandler(ip')
                  /\ IteratorOnTop(stack')
            /\ IsBreakHandler(ip) =>
                  /\ pc' = "running"
                  /\ IteratorOnTop(stack)
                  /\ stack' = Drop(stack, 1)
                  /\ \A k \in 1..Len(stack') : stack'[k] # Top(stack)
            /\ (Fetch.opcode = "OP_JUMP" /\ InForBody(ip) /\ EmittedFor(ip, "ContinueStmt")) =>
                  /\ ip' = LoopHeadOf(ip)
                  /\ IteratorOnTop(stack')]_vars

\* the indices in the constants table of the Function constants that
\* function definitions and function expressions produced
UserFunctionConstants ==
    {i \in 1..Len(constants) : constants[i].t = "Fn" /\ constants[i].start_ip # NoIp}

\* instruction i is emitted with the token of a function definition or
\* function expression
EmittedForFunction(i) ==
    EmittedFor(i, "FunctionDefStmt") \/ EmittedFor(i, "FunctionExpr")

\* the instructions from start_ip + 1 on are the OP_DEF_LOCALs of arity
\* parameters
ParameterScopeAt(start_ip, arity) ==
    \A k \in 1..arity : bytecode_chunk[start_ip + 1 + k].opcode = "OP_DEF_LOCAL"

\* instruction after follows the implicit `CONST None; RETURN` of a function
\* body
AfterEpilogue(after) ==
    /\ after >= 2
    /\ bytecode_chunk[after].opcode = "OP_RETURN"
    /\ EmittedForFunction(after - 1)
    /\ bytecode_chunk[after - 1].opcode = "OP_CONST"
    /\ constants[bytecode_chunk[after - 1].operand + 1] = NoneV
    /\ EmittedForFunction(after - 2)

\* C34: for every Function constant of a function definition or function
\* expression, the instruction at start_ip is the OP_ENTER_SCOPE that opens
\* the scope of the parameters; the OP_JUMP in front of it leads to the
\* instruction right after the `CONST None; RETURN` that ends the body, so
\* executing the definition runs no instruction of the body.
C34_FunctionLayout ==
    [][(pc = "running") =>
        /\ Cardinality(UserFunctionConstants) = Len(FunctionNodes(program))
        /\ \A i \in UserFunctionConstants :
              LET start_ip == constants[i].start_ip
                  after == bytecode_chunk[start_ip].operand
              IN  /\ start_ip >= 1
                  /\ bytecode_chunk[start_ip + 1].opcode = "OP_ENTER_SCOPE"
                  /\ EmittedForFunction(start_ip)
                  /\ ParameterScopeAt(start_ip, constants[i].arity)
                  /\ bytecode_chunk[start_ip].opcode = "OP_JUMP"
                  /\ EmittedForFunction(start_ip - 1)
                  /\ after > start_ip
                  /\ AfterEpilogue(after)
                  /\ bytecode_chunk[after + 1] = Instruction("OP_CONST", i - 1)
                  /\ (pc = "running" /\ ip = start_ip - 1 /\ steps' = steps + 1) =>
                        /\ pc' = "running"
                        /\ ip' = after
                        /\ UNCHANGED <<stack, environments, frames>>]_vars

\* the definition of fact in P_S5 is being executed: the OP_JUMP has gone
\* over the body to the OP_CONST that loads the function object, and no
\* instruction of the body has bound n
C34_Witness ==
    /\ pc = "running"
    /\ program = P_S5
    /\ \E i \in UserFunctionConstants :
          /\ constants[i].name = "fact"
          /\ ip = bytecode_chunk[constants[i].start_ip].operand
          /\ bytecode_chunk[ip + 1] = Instruction("OP_CONST", i - 1)
    /\ Lookup(environments, "fact") = 0
    /\ Lookup(environments, "n") = 0
    /\ frames = <<>>

\* the step that executes the last instruction of the prelude of a called
\* user function: the OP_DEF_LOCAL of the last parameter bound, or the
\* OP_ENTER_SCOPE of a function without parameters
PreludeEnds(i) ==
    /\ pc = "running"
    /\ pc' = "running"
    /\ steps' = steps + 1
    /\ frames # <<>>
    /\ ip = constants[i].start_ip + constants[i].arity

C36_CalleeKeepsCallersStacks ==
    pc = "running" =>
        \A k \in 1..Len(frames) :
            /\ Len(stack) > frames[k].stack_slot
            /\ Len(environments) >= frames[k].env_depth

\* the name that the variable instruction at ip reads
ReadName == constants[operand + 1].s

\* C37: when a name has been declared in a scope (by let, const, as a
\* parameter or by fn) and that scope is still open, a read of the name
\* yields the value bound to it there; this holds for every name, the names
\* of the native registry included.
C37_DeclareThenRead ==
    [][(/\ pc = "running"
        /\ steps' = steps + 1
        /\ ip < Len(bytecode_chunk)
        /\ Fetch.opcode \in {"OP_GET_LOCAL", "OP_GET_GLOBAL"}
        /\ Lookup(environments, ReadName) # 0)
         => /\ pc' = "running"
            /\ stack' = Append(stack,
                   environments[Lookup(environments, ReadName)][ReadName].value)]_vars

\* the entry of the table of self at the index that add_constant(value)
\* returns
InternedAs(self, value) ==
    add_constant(self, value).constants[ConstIndex(add_constant(self, value).constants, value) + 1]

\* C38: add_constant keeps the value it is given: the entry at the index it
\* returns has the variant and the payload of the value, so the Int 1 and
\* the Float 1.0 get slots of their own and a program that uses both loads
\* each with its own type.
C38_AddConstantPreservesValue ==
    /\ pc = "compiled" =>
          /\ \A value \in ConstantValues : InternedAs(compiler, value) = value
          /\ InternedAs(add_constant(compiler, IntV(1)), FloatV(1, 1)) = FloatV(1, 1)
          /\ InternedAs(add_constant(compiler, FloatV(1, 1)), IntV(1)) = IntV(1)
    /\ (pc = "returned" /\ program = P_int_float_const) => result = Result_ok(FloatV(1, 1))

\* C39: a const binding does not change while its environment lives: once
\* OP_DEF_CONST_LOCAL has bound a name in an environment, no instruction
\* changes the value or the is_const flag stored under the name in that
\* environment until the environment is popped.
C39_ConstBindingImmutable ==
    [][(pc = "running" /\ pc' \in {"running", "returned", "raised"}) =>
        \A k \in 1..Len(environments) :
            \A name \in DOMAIN environments[k] :
                (environments[k][name].is_const /\ Len(environments') >= k) =>
                    /\ name \in DOMAIN environments'[k]
                    /\ environments'[k][name] = environments[k][name]]_vars

\* the chunk is the one the VM has loaded
IsLoaded(chunk) ==
    bytecode_chunk = chunk.bytecode_chunk /\ constants = chunk.constants

\* the VM is as interpret(chunk) leaves a new PyleVM at the call of _run
FreshlyStarted(chunk) ==
    /\ IsLoaded(chunk)
    /\ pc = "running"
    /\ ip = 0
    /\ stack = <<>>
    /\ globals = EmptyDict
    /\ environments = <<>>
    /\ frames = <<>>
    /\ heap = <<>>
    /\ steps = 0

\* C40: the runs on one VM do not depend on each other: interpret starts
\* every run, whatever the run before has left on the operand stack, in the
\* globals, the environments and the frames, from the state it gives a new
\* VM, and the chunks that read what they did not write end as on a new VM
\* after every run before.
C40_RunsIndependent ==
    [][/\ (Ended /\ pc' = "running") => \E chunk \in Chunks : FreshlyStarted(chunk)'
       /\ (Ended /\ IsLoaded(K_get_global_only)) =>
             /\ result = Result_err(PyleRuntimeError("Undefined global variable", NoneV))
             /\ <<stack, globals, environments, frames>> = <<<<>>, EmptyDict, <<>>, <<>>>>
       /\ (Ended /\ IsLoaded(K_get_local_only)) =>
             /\ result = Result_err(PyleRuntimeError("Undefined local variable", NoneV))
             /\ <<stack, globals, environments, frames>> = <<<<>>, EmptyDict, <<>>, <<>>>>
       /\ (Ended /\ IsLoaded(K_pop_first)) =>
             /\ result = Result_err(PyleRuntimeError("Stack underflow for OP_POP.", NoneV))
             /\ <<stack, globals, environments, frames>> = <<<<>>, EmptyDict, <<>>, <<>>>>
       /\ (Ended /\ IsLoaded(K_exit_scope_first)) =>
             /\ is_err(result)
             /\ <<stack, globals, environments, frames>> = <<<<>>, EmptyDict, <<>>, <<>>>>
       /\ (Ended /\ IsLoaded(K_return_only)) =>
             /\ result = Result_ok(IntV(7))
             /\ ip = 2
             /\ <<stack, globals, environments, frames>> = <<<<>>, EmptyDict, <<>>, <<>>>>
       /\ (Ended /\ IsLoaded(K_leave_scope_open)) =>
             /\ result = Result_ok(IntV(1))
             /\ stack = <<IntV(1)>>
             /\ DOMAIN globals = {"g"}
             /\ Len(environments) = 1
             /\ frames = <<>>]_vars

\* the run of K_fault_in_frame has returned an error inside the call of f,
\* with a value on the operand stack, an environment and a frame left, and
\* interpret(K_return_only) on this VM starts from the empty stacks
C40_Witness ==
    /\ pc = "returned"
    /\ IsLoaded(K_fault_in_frame)
    /\ is_err(result)
    /\ stack # <<>>
    /\ environments # <<>>
    /\ frames # <<>>
    /\ ENABLED (InterpretAgain /\ FreshlyStarted(K_return_only)')

====
